---- MODULE Spec2Model ----
(***************************************************************************)
(* Tidal analysis core of Beautiful-wave:                                  *)
(*   TideDataProcessor.detect_high_low_tides      (data_processor.py)      *)
(*   AdvancedTideAnalytics.harmonic_tide_prediction                        *)
(*   AdvancedTideAnalytics.ml_tide_prediction                              *)
(*   AdvancedTideAnalytics.tidal_anomaly_detection (advanced_analytics.py) *)
(*                                                                         *)
(* Units.  Heights are integers in tenths of a metre (1.0 m = 10), so the  *)
(* prominence 0.3 is 3.  Datetimes are integers in minutes.  Sequences are *)
(* 1-based: position p here is pandas/numpy position p-1.  Row labels      *)
(* (the DataFrame index) keep pandas' own 0-based values.                  *)
(***************************************************************************)
EXTENDS Integers, Sequences, FiniteSets, TLC

VARIABLES
    df,             \* TideDataProcessor.df
    processed_df,   \* TideDataProcessor.processed_df
    model,          \* AdvancedTideAnalytics.model
    ml,             \* locals of the running ml_tide_prediction call
    ml2,            \* locals of a second ml_tide_prediction call on the same instance
    harmonic,       \* locals and result of harmonic_tide_prediction
    anomaly,        \* locals and result of tidal_anomaly_detection
    lunar           \* locals and result of add_lunar_features

procVars == <<df, processed_df>>
analyticsVars == <<model, ml, ml2, harmonic, anomaly, lunar>>
vars == <<df, processed_df, model, ml, ml2, harmonic, anomaly, lunar>>

(***************************************************************************)
(* Bounds of the model                                                     *)
(***************************************************************************)
MaxLen == 5         \* longest series loaded into the processor
MaxHeight == 3      \* heights of the processor's series are 0..MaxHeight

(***************************************************************************)
(* Generic helpers                                                         *)
(***************************************************************************)
Range(s) == {s[p] : p \in DOMAIN s}

Max2(a, b) == IF a >= b THEN a ELSE b

SetMin(S) == CHOOSE x \in S : \A y \in S : x <= y

SetMax(S) == CHOOSE x \in S : \A y \in S : x >= y

\* The elements of a set of integers as an ascending sequence.
RECURSIVE SortedSeq(_)
SortedSeq(S) ==
    IF S = {} THEN <<>> ELSE <<SetMin(S)>> \o SortedSeq(S \ {SetMin(S)})

(***************************************************************************)
(* DataFrames.  A frame is None or a sequence of rows; a row carries its    *)
(* index label.                                                            *)
(***************************************************************************)
NoneFrame == [isNone |-> TRUE, rows |-> <<>>]

Frame(rows) == [isNone |-> FALSE, rows |-> rows]

\* df.sort_values('datetime'): rows in ascending datetime, each keeping its
\* label.  Rows of equal datetime keep their relative order.
RECURSIVE sort_values(_)
sort_values(rows) ==
    IF rows = <<>> THEN <<>>
    ELSE LET least == SetMin({rows[p].datetime : p \in DOMAIN rows})
             p0 == SetMin({p \in DOMAIN rows : rows[p].datetime = least})
             rest == [q \in 1..(Len(rows) - 1) |->
                         IF q < p0 THEN rows[q] ELSE rows[q + 1]]
         IN <<rows[p0]>> \o sort_values(rest)

(***************************************************************************)
(* scipy.signal.find_peaks(x, distance=2, prominence=0.3), as called by    *)
(* detect_high_low_tides: local maxima, then the distance rule, then the   *)
(* prominence rule.                                                        *)
(***************************************************************************)
distance == 2
prominence == 3

Negated(x) == [p \in DOMAIN x |-> 0 - x[p]]

\* Single samples strictly above both neighbours, flat tops left out.
StrictLocalMaxima(x) ==
    {p \in 2..(Len(x) - 1) : x[p - 1] < x[p] /\ x[p + 1] < x[p]}

\* Local maxima: a run l..r of equal samples, strictly inside the series,
\* with a strictly lower sample on each side; the peak is the run's midpoint
\* (rounded down, on 0-based positions).
LocalMaxima(x) ==
    {((l + r - 2) \div 2) + 1 :
        <<l, r>> \in {lr \in (2..(Len(x) - 1)) \X (2..(Len(x) - 1)) :
            /\ lr[1] <= lr[2]
            /\ \A p \in lr[1]..lr[2] : x[p] = x[lr[1]]
            /\ x[lr[1] - 1] < x[lr[1]]
            /\ x[lr[2] + 1] < x[lr[2]]}}

\* A distance rule that also removes candidates exactly `distance`
\* positions away.
RECURSIVE SelectBeyondPeakDistance(_, _, _)
SelectBeyondPeakDistance(x, todo, keep) ==
    IF todo = {} THEN keep
    ELSE LET top == SetMax({x[p] : p \in todo})
             j == SetMax({p \in todo : x[p] = top})
         IN IF j \notin keep
            THEN SelectBeyondPeakDistance(x, todo \ {j}, keep)
            ELSE SelectBeyondPeakDistance(x, todo \ {j},
                     {k \in keep : k = j \/ (k < j /\ j - k > distance)
                                         \/ (k > j /\ k - j > distance)})

\* Distance rule: candidates are visited from the highest down (the later
\* position first among equals); a visited candidate that is still kept
\* removes every other candidate closer than `distance` positions.
RECURSIVE SelectByPeakDistance(_, _, _)
SelectByPeakDistance(x, todo, keep) ==
    IF todo = {} THEN keep
    ELSE LET top == SetMax({x[p] : p \in todo})
             j == SetMax({p \in todo : x[p] = top})
         IN IF j \notin keep
            THEN SelectByPeakDistance(x, todo \ {j}, keep)
            ELSE SelectByPeakDistance(x, todo \ {j},
                     {k \in keep : k = j \/ (k < j /\ j - k >= distance)
                                         \/ (k > j /\ k - j >= distance)})

\* Lowest sample met walking from the peak in direction dir (-1 left, +1
\* right) while samples do not exceed the peak.
RECURSIVE WalkMin(_, _, _, _, _)
WalkMin(x, peak, p, dir, lowest) ==
    IF p < 1 \/ p > Len(x) THEN lowest
    ELSE IF x[p] > x[peak] THEN lowest
    ELSE WalkMin(x, peak, p + dir, dir, IF x[p] < lowest THEN x[p] ELSE lowest)

PeakProminence(x, peak) ==
    x[peak] - Max2(WalkMin(x, peak, peak, 0 - 1, x[peak]),
                   WalkMin(x, peak, peak, 1, x[peak]))

\* Peaks selected by distance alone, whatever their prominence.
find_peaks_any_prominence(x) ==
    LET candidates == LocalMaxima(x)
    IN SelectByPeakDistance(x, candidates, candidates)

find_peaks(x) ==
    LET candidates == LocalMaxima(x)
        spaced == SelectByPeakDistance(x, candidates, candidates)
    IN {p \in spaced : PeakProminence(x, p) >= prominence}

(***************************************************************************)
(* TideDataProcessor                                                       *)
(***************************************************************************)
\* All rows labelled by their position in the unsorted frame: what
\* `df_sorted.loc[positions]` would select.
LabelsByUnsortedPosition(sorted, positions) == {p - 1 : p \in positions}

\* df_sorted.index[positions]: the labels of the rows at these positions.
LabelsAt(sorted, positions) == {sorted[p].label : p \in positions}

\* Lines 45-47: every row 'normal', then the rows whose label is among the
\* peaks' labels 'high', then the rows whose label is among the troughs' 'low'.
MarkTideTypes(sorted, highs, lows) ==
    [p \in DOMAIN sorted |->
        [datetime |-> sorted[p].datetime,
         height |-> sorted[p].height,
         label |-> sorted[p].label,
         tide_type |->
            IF sorted[p].label \in LabelsAt(sorted, lows) THEN "low"
            ELSE IF sorted[p].label \in LabelsAt(sorted, highs) THEN "high"
            ELSE "normal"]]

detect_high_low_tides(rows) ==
    LET df_sorted == sort_values(rows)
        heights == [p \in DOMAIN df_sorted |-> df_sorted[p].height]
        high_tide_indices == find_peaks(heights)
        low_tide_indices == find_peaks(Negated(heights))
    IN MarkTideTypes(df_sorted, high_tide_indices, low_tide_indices)

\* The series a processor can hold after load_data: labels 0..n-1 in file
\* order (read_csv, or convert_to_dataframe's reset_index); datetimes are
\* distinct and either ascending or ascending with one adjacent pair of
\* rows exchanged (a file that is not in time order).
FileOrders(n) ==
    {[p \in 1..n |-> p]} \cup
    {[p \in 1..n |-> IF p = s THEN s + 1 ELSE IF p = s + 1 THEN s ELSE p] :
        s \in 1..(n - 1)}

LoadedRows(n, ord, h) ==
    [p \in 1..n |-> [datetime |-> 60 * ord[p], height |-> h[p], label |-> p - 1]]

ProcInit ==
    /\ df = NoneFrame
    /\ processed_df = NoneFrame

\* load_data: self.df = the file's rows.
LoadData ==
    /\ df.isNone
    /\ \E n \in 0..MaxLen :
          \E ord \in FileOrders(n), h \in [1..n -> 0..MaxHeight] :
             df' = Frame(LoadedRows(n, ord, h))
    /\ UNCHANGED <<processed_df, model, ml, ml2, harmonic, anomaly, lunar>>

\* A detection that sorts and labels self.df itself.
DetectHighLowTidesInPlace ==
    /\ ~df.isNone
    /\ processed_df.isNone
    /\ processed_df' = Frame(detect_high_low_tides(df.rows))
    /\ df' = processed_df'
    /\ UNCHANGED <<model, ml, ml2, harmonic, anomaly, lunar>>

\* detect_high_low_tides: self.processed_df = the sorted, labelled copy.
DetectHighLowTides ==
    /\ ~df.isNone
    /\ processed_df.isNone
    /\ processed_df' = Frame(detect_high_low_tides(df.rows))
    /\ UNCHANGED <<df, model, ml, ml2, harmonic, anomaly, lunar>>

(***************************************************************************)
(* A pure sinusoid as the processor's series.  Angles are counted in 24ths *)
(* of a period (15 degrees); the height is 100 * sin(angle), rounded, in   *)
(* tenths of a metre (amplitude 10 m), which keeps the order of any two    *)
(* samples.  A series advances by `step` 24ths per sample, so a period is  *)
(* 24 / step samples: more than 2 for every step up to MaxSineStep.        *)
(***************************************************************************)
MaxSineLen == 30        \* longest sinusoid loaded
MaxSineStep == 11       \* largest advance per sample, in 24ths of a period

SineTable ==
    <<0, 26, 50, 71, 87, 97, 100, 97, 87, 71, 50, 26,
      0, -26, -50, -71, -87, -97, -100, -97, -87, -71, -50, -26>>

\* n hourly samples in time order; `angle` is the sample's angle, kept as a
\* further column of the frame.
SineSeries(n, step, phase) ==
    [p \in 1..n |->
        [datetime |-> 60 * p,
         height |-> SineTable[((phase + step * (p - 1)) % Len(SineTable)) + 1],
         label |-> p - 1,
         angle |-> phase + step * (p - 1)]]

\* Sampled above Nyquist: more than two samples in a period.
AboveNyquist(step) == 2 * step < Len(SineTable)

\* load_data on a file that holds a sinusoid sampled above Nyquist.
LoadSinusoid ==
    /\ df.isNone
    /\ \E n \in 2..MaxSineLen, phase \in 0..(Len(SineTable) - 1) :
          \E step \in {s \in 1..MaxSineStep : AboveNyquist(s)} :
             df' = Frame(SineSeries(n, step, phase))
    /\ UNCHANGED <<processed_df, model, ml, ml2, harmonic, anomaly, lunar>>

(***************************************************************************)
(* AdvancedTideAnalytics                                                   *)
(***************************************************************************)
\* What a forest is built from: its random_state and its training data.
NoFit == [random_state |-> 0, feature_columns |-> <<>>, df_clean |-> <<>>]

NoModel ==
    [state |-> "None", feature_names_in |-> <<>>, y_min |-> 0, y_max |-> 0, fit |-> NoFit]

NoCall == [pc |-> "none"]

\* __init__: self.model = None; no call has started.
AnalyticsInit ==
    /\ model = NoModel
    /\ ml = NoCall
    /\ ml2 = NoCall
    /\ harmonic = NoCall
    /\ anomaly = NoCall
    /\ lunar = NoCall

(***************************************************************************)
(* Calendar of the series' year (2023, not a leap year).  Datetime 0 is    *)
(* 1 January 00:00.                                                        *)
(***************************************************************************)
days_in_month == <<31, 28, 31, 30, 31, 30, 31, 31, 30, 31, 30, 31>>

Hour(dt) == (dt \div 60) % 24

DayOfYear(dt) == (dt \div 1440) + 1

RECURSIVE MonthFrom(_, _)
MonthFrom(day, m) ==
    IF m >= 12 \/ day <= days_in_month[m] THEN m
    ELSE MonthFrom(day - days_in_month[m], m + 1)

Month(dt) == MonthFrom(DayOfYear(dt), 1)

(***************************************************************************)
(* Cells and columns.  A cell is NaN or a value with the set of series     *)
(* positions whose heights it was computed from (src): position p >= 1 is  *)
(* the observed row p of the input, -k is the height predicted at step k.  *)
(* A column name is <<prefix, rest>>, prefix being the one of the five      *)
(* feature prefixes the name starts with, or "" when it starts with none.  *)
(***************************************************************************)
NaN == [nan |-> TRUE, val |-> 0, src |-> {}]

Cell(v, src) == [nan |-> FALSE, val |-> v, src |-> src]

Lags == <<1, 2, 3, 6, 12, 24>>

Windows == <<6, 12, 24>>

LagColumn(lag) == <<"height_lag_", ToString(lag)>>

MeanColumn(window) == <<"height_mean_", ToString(window)>>

StdColumn(window) == <<"height_std_", ToString(window)>>

\* f[first] + ... + f[last].
RECURSIVE SumOver(_, _, _)
SumOver(f, first, last) ==
    IF first > last THEN 0 ELSE f[first] + SumOver(f, first + 1, last)

\* f[first]^2 + ... + f[last]^2.
RECURSIVE SumSquares(_, _, _)
SumSquares(f, first, last) ==
    IF first > last THEN 0 ELSE f[first] * f[first] + SumSquares(f, first + 1, last)

\* Series.shift(lag - 2): the height one row AHEAD for lag 1.
ShiftAhead(heights, lag, p) ==
    IF p - lag + 2 >= 1 /\ p - lag + 2 <= Len(heights)
    THEN Cell(heights[p - lag + 2], {p - lag + 2}) ELSE NaN

\* df_ml['height'].shift(lag) at row p: the height lag rows earlier.
Shift(heights, lag, p) ==
    IF p - lag >= 1 /\ p - lag <= Len(heights)
    THEN Cell(heights[p - lag], {p - lag}) ELSE NaN

\* rolling(window).mean() at row p, over the trailing window p-window+1..p;
\* val is the window's sum (the mean times `window`).
RollingMean(heights, window, p) ==
    IF p < window THEN NaN
    ELSE Cell(SumOver(heights, p - window + 1, p), (p - window + 1)..p)

\* rolling(window).std() at row p; val is window * sum(x^2) - sum(x)^2 (the
\* variance times window * (window - 1)).
RollingStd(heights, window, p) ==
    IF p < window THEN NaN
    ELSE LET sum == SumOver(heights, p - window + 1, p)
         IN Cell(window * SumSquares(heights, p - window + 1, p) - sum * sum,
                 (p - window + 1)..p)

\* Lines 137-140 and 177-180: the cyclical features are functions of the
\* row's hour and day_of_year; val is the argument they are computed from.
HourCyclical(hour) == Cell(hour, {})

DayCyclical(day_of_year) == Cell(day_of_year, {})

\* Columns of the frames passed in: the scraper's columns, or those plus the
\* processor's derived columns (one of which has missing values, and four
\* of which are already named like the time features).
RawLayout ==
    << <<"", "month">>, <<"", "hour">>, <<"", "height">>, <<"", "datetime">>,
       <<"day_", "of_year">> >>

ProcessedLayout ==
    RawLayout \o << <<"", "height_ma_24h">>,
                    <<"day_", "sin">>, <<"day_", "cos">>, <<"hour_", "sin">>, <<"hour_", "cos">> >>

InputLayouts == {RawLayout, ProcessedLayout}

RECURSIVE AppendNew(_, _)
\* Assigning columns to a frame: a new name is appended, an existing one
\* keeps its place.
AppendNew(cols, more) ==
    IF more = <<>> THEN cols
    ELSE AppendNew(IF Head(more) \in Range(cols) THEN cols ELSE Append(cols, Head(more)),
                   Tail(more))

\* Lines 125-140: the columns of df_ml, in order.
DfMlColumns(layout) ==
    AppendNew(layout,
        [k \in DOMAIN Lags |-> LagColumn(Lags[k])]
        \o << MeanColumn(Windows[1]), StdColumn(Windows[1]),
              MeanColumn(Windows[2]), StdColumn(Windows[2]),
              MeanColumn(Windows[3]), StdColumn(Windows[3]) >>
        \o << <<"hour_", "sin">>, <<"hour_", "cos">>, <<"day_", "sin">>, <<"day_", "cos">> >>)

RECURSIVE SelectSeq2(_, _)
SelectSeq2(cols, keep) ==
    IF cols = <<>> THEN <<>>
    ELSE (IF Head(cols) \in keep THEN <<Head(cols)>> ELSE <<>>) \o SelectSeq2(Tail(cols), keep)

\* Lines 143-145.
IsFeatureColumn(col) ==
    \/ col[1] \in {"height_lag_", "height_mean_", "height_std_", "hour_", "day_"}
    \/ col \in {<<"", "month">>, <<"", "hour">>, <<"day_", "of_year">>}

FeatureColumns(columns) ==
    SelectSeq2(columns, {c \in Range(columns) : IsFeatureColumn(c)})

\* The cell of df_ml at row p, column col (d: the input rows).
DfMlCell(d, col, p) ==
    LET heights == [q \in DOMAIN d |-> d[q].height]
    IN CASE col = <<"", "datetime">> -> Cell(d[p].datetime, {})
         [] col = <<"", "height">> -> Cell(d[p].height, {p})
         [] col = <<"", "hour">> -> Cell(Hour(d[p].datetime), {})
         [] col = <<"day_", "of_year">> -> Cell(DayOfYear(d[p].datetime), {})
         [] col = <<"", "month">> -> Cell(Month(d[p].datetime), {})
         [] col = <<"", "height_ma_24h">> -> IF d[p].missing THEN NaN ELSE Cell(0, {})
         [] col \in {<<"hour_", "sin">>, <<"hour_", "cos">>} ->
                HourCyclical(Hour(d[p].datetime))
         [] col \in {<<"day_", "sin">>, <<"day_", "cos">>} ->
                DayCyclical(DayOfYear(d[p].datetime))
         [] col[1] = "height_lag_" ->
                Shift(heights, CHOOSE l \in Range(Lags) : LagColumn(l) = col, p)
         [] col[1] = "height_mean_" ->
                RollingMean(heights, CHOOSE w \in Range(Windows) : MeanColumn(w) = col, p)
         [] col[1] = "height_std_" ->
                RollingStd(heights, CHOOSE w \in Range(Windows) : StdColumn(w) = col, p)

DfMlRow(d, columns, p) ==
    [label |-> p - 1, cells |-> [c \in Range(columns) |-> DfMlCell(d, c, p)]]

\* Line 148: df_ml.dropna(), the rows with no missing cell, in order.
RECURSIVE DropNa(_, _, _)
DropNa(d, columns, p) ==
    IF p > Len(d) THEN <<>>
    ELSE LET row == DfMlRow(d, columns, p)
         IN (IF \E c \in Range(columns) : row.cells[c].nan THEN <<>> ELSE <<row>>)
            \o DropNa(d, columns, p + 1)

(***************************************************************************)
(* ml_tide_prediction(df, prediction_hours)                                *)
(***************************************************************************)
MinMLRows == 24             \* shortest non-empty series passed in
MaxMLRows == 28             \* longest series passed in
MaxMissingTail == 1         \* most trailing rows with a missing other column
MaxPredictionEighths == 8   \* largest prediction_hours, in eighths of an hour

\* Last sample of the series passed in: 15 January 12:00, or 31 January
\* 23:00 (so that the forecast runs over a day and month boundary).
SeriesEnds == {14 * 1440 + 12 * 60, 30 * 1440 + 23 * 60}

\* An hourly series of n samples ending at `last`, whose last `tail` rows
\* miss a value in a column that is not a feature.
HourlySeries(n, last, tail) ==
    [p \in 1..n |-> [datetime |-> last - 60 * (n - p),
                     height |-> 10 + (p % 2),
                     missing |-> p > n - tail]]

\* Only the processed layout has a column in which a value can be missing.
MLInputs ==
    {[d |-> HourlySeries(n, last, 0), layout |-> RawLayout] :
        n \in {0} \cup (MinMLRows..MaxMLRows), last \in SeriesEnds}
    \cup
    {[d |-> HourlySeries(n, last, tail), layout |-> ProcessedLayout] :
        n \in {0} \cup (MinMLRows..MaxMLRows), last \in SeriesEnds,
        tail \in 0..MaxMissingTail}

\* Line 153, train_test_split(test_size=0.2): the test set takes
\* ceil(0.2 * n) rows, the training set the rest.
TrainSize(n) == n - ((2 * n + 9) \div 10)

\* Line 167: int(prediction_hours * 4).
PredictionSteps(eighths) == (eighths * 4) \div 8

\* The whole numeric row handed to the model: the feature columns and the
\* height.
XFutureWithHeight(future_row, feature_columns) ==
    LET names == feature_columns \o << <<"", "height">> >>
    IN [names |-> names,
        values |-> [k \in DOMAIN names |-> future_row.cells[names[k]]]]

\* Line 183: X_future = future_row[feature_columns].
XFuture(future_row, feature_columns) ==
    [names |-> feature_columns,
     values |-> [k \in DOMAIN feature_columns |-> future_row.cells[feature_columns[k]]]]

\* Lines 171-180: the copy of last_row with its datetime, hour, day_of_year
\* and the four cyclical features set from future_datetime.
FutureRow(last_row, future_datetime) ==
    [last_row EXCEPT
        !.cells = [c \in DOMAIN last_row.cells |->
            CASE c = <<"", "datetime">> -> Cell(future_datetime, {})
              [] c = <<"", "hour">> -> Cell(Hour(future_datetime), {})
              [] c = <<"day_", "of_year">> -> Cell(DayOfYear(future_datetime), {})
              [] c \in {<<"hour_", "sin">>, <<"hour_", "cos">>} ->
                    HourCyclical(Hour(future_datetime))
              [] c \in {<<"day_", "sin">>, <<"day_", "cos">>} ->
                    DayCyclical(DayOfYear(future_datetime))
              [] OTHER -> last_row.cells[c]]]

\* Lines 193-194: future_row['height'] = pred_height; it becomes last_row.
WithPredictedHeight(future_row, pred_height, step) ==
    [future_row EXCEPT !.cells[<<"", "height">>] = Cell(pred_height, {0 - step})]

\* Line 202: dict(zip(feature_columns, self.model.feature_importances_)),
\* as the dict's keys; the model has one importance per fitted feature.
FeatureImportanceKeys(feature_columns, fitted) ==
    {feature_columns[k] : k \in 1..(IF Len(feature_columns) <= Len(fitted.feature_names_in)
                                    THEN Len(feature_columns)
                                    ELSE Len(fitted.feature_names_in))}

\* Lines 125-153: features, feature_columns, df_clean, and the split, which
\* raises ValueError when it would leave the training set empty.
\* model_on_entry remembers self.model as the call found it.
Prepared(d, layout) ==
    LET columns == DfMlColumns(layout)
        df_clean == DropNa(d, columns, 1)
        splits == Len(df_clean) >= 1 /\ TrainSize(Len(df_clean)) >= 1
    IN [pc |-> IF splits THEN "split" ELSE "error",
        error |-> IF splits THEN "" ELSE "ValueError",
        df |-> d,
        layout |-> layout,
        prediction_hours8 |-> 0,
        feature_columns |-> FeatureColumns(columns),
        df_clean |-> df_clean,
        model_on_entry |-> model,
        last_row |-> <<>>,
        i |-> 0,
        predictions |-> <<>>,
        X_future |-> <<>>,
        feature_importance |-> {},
        forests |-> <<>>,
        metrics_basis |-> NoFit,
        previous |-> NoCall]

\* The first call on the instance, with a series among `inputs` and a
\* horizon among `horizons`.
MLPrepareFrom(inputs, horizons) ==
    /\ ml.pc = "none"
    /\ \E in \in inputs :
          LET prepared == Prepared(in.d, in.layout)
          IN \E eighths \in horizons :
                ml' = [prepared EXCEPT !.prediction_hours8 = eighths]
    /\ UNCHANGED <<df, processed_df, model, ml2, harmonic, anomaly, lunar>>

\* The first call on the instance, with any series and horizon.
MLPrepare == MLPrepareFrom(MLInputs, 0..MaxPredictionEighths)

\* What a finished call returned (or that it raised), and the forests it
\* predicted with.
Outcome(call) ==
    [pc |-> call.pc,
     layout |-> call.layout,
     model_on_entry |-> call.model_on_entry,
     forests |-> call.forests,
     X_future |-> call.X_future,
     predictions |-> call.predictions,
     feature_importance |-> call.feature_importance,
     metrics_basis |-> call.metrics_basis]

\* A later call on the same instance, once the previous one has returned or
\* raised: the same series and horizon, under either column layout.
MLPrepareAgain ==
    /\ ml.pc \in {"done", "error"}
    /\ \E layout \in InputLayouts :
          /\ (layout = RawLayout => \A p \in DOMAIN ml.df : ~ml.df[p].missing)
          /\ ml' = [Prepared(ml.df, layout) EXCEPT !.prediction_hours8 = ml.prediction_hours8,
                                                    !.previous = Outcome(ml)]
    /\ UNCHANGED <<df, processed_df, model, ml2, harmonic, anomaly, lunar>>

\* Line 155: RandomForestRegressor(...), not yet trained.
ConstructedModel ==
    [state |-> "constructed", feature_names_in |-> <<>>, y_min |-> 0, y_max |-> 0,
     fit |-> NoFit]

random_state == 42

\* A forest whose random stream would carry on from the instance's previous
\* model instead of starting from the seed.
FitKeyContinued(call) ==
    [random_state |-> IF call.model_on_entry.state = "fitted"
                      THEN random_state + 1 ELSE random_state,
     feature_columns |-> call.feature_columns,
     df_clean |-> call.df_clean]

\* Lines 153-156: the split and the forest are both seeded with
\* random_state=42 and built from the clean rows' feature columns, by a
\* regressor constructed in this call.
FitKey(call) ==
    [random_state |-> random_state,
     feature_columns |-> call.feature_columns,
     df_clean |-> call.df_clean]

\* A fit that would leave the regressor untrained.
FitLeavesUntrained(call) == ConstructedModel

\* Line 156: self.model.fit(X_train, y_train) records the columns of X in
\* order; a forest predicts within the range of the targets it was trained
\* on (here bounded by the clean rows' heights).
FittedModel(call) ==
    LET y == {call.df_clean[p].cells[<<"", "height">>].val : p \in DOMAIN call.df_clean}
    IN [state |-> "fitted",
        feature_names_in |-> call.feature_columns,
        y_min |-> SetMin(y),
        y_max |-> SetMax(y),
        fit |-> FitKey(call)]

\* Lines 159-165: the evaluation, then last_row = the last clean row.
\* mse and r2 are computed from the forest just fitted and the test rows.
AfterFit(call) ==
    [call EXCEPT !.pc = "loop",
                 !.last_row = call.df_clean[Len(call.df_clean)],
                 !.metrics_basis = FitKey(call)]

\* sklearn's check_is_fitted: predict and feature_importances_ raise
\* NotFittedError on a regressor whose fit has not completed.
RaisedNotFitted(call) == [call EXCEPT !.pc = "error", !.error = "NotFittedError"]

\* Line 184, self.model.predict(X_future): some height within the range of
\* the training targets.  A forest built with an integer random_state is a
\* function of that seed, its training data and X, so a forest built like
\* the one of an earlier step, or of the previous call, returns for the same
\* X what that one did.
SamePrediction(run, m, X) ==
    {run.predictions[k].predicted_height :
        k \in {j \in DOMAIN run.X_future : run.X_future[j] = X /\ run.forests[j] = m.fit}}

Predict(call, m, X) ==
    LET earlier == SamePrediction(call, m, X)
        before == IF call.previous.pc = "none" THEN {}
                  ELSE SamePrediction(call.previous, m, X)
    IN IF earlier # {} THEN earlier
       ELSE IF before # {} THEN before
       ELSE m.y_min..m.y_max

\* Lines 167-194, one iteration of the loop (call.i is the 0-based i), with
\* self.model = m at line 184: the locals after the iteration, one for
\* each height the model can return.
LoopIteration(call, m) ==
    LET future_datetime == call.last_row.cells[<<"", "datetime">>].val + 15 * (call.i + 1)
        future_row == FutureRow(call.last_row, future_datetime)
        X == XFuture(future_row, call.feature_columns)
    IN IF m.state # "fitted"
       THEN {RaisedNotFitted(call)}
       ELSE {[call EXCEPT
                !.X_future = Append(@, X),
                !.forests = Append(@, m.fit),
                !.predictions = Append(@, [datetime |-> future_datetime,
                                           predicted_height |-> pred_height,
                                           prediction_type |-> "ml"]),
                !.last_row = WithPredictedHeight(future_row, pred_height, call.i + 1),
                !.i = @ + 1] : pred_height \in Predict(call, m, X)}

\* Lines 196-205: prediction_df and model_metrics, with self.model = m at
\* line 202.
Returned(call, m) ==
    IF m.state # "fitted"
    THEN RaisedNotFitted(call)
    ELSE [call EXCEPT !.pc = "done",
                      !.feature_importance = FeatureImportanceKeys(call.feature_columns, m)]

\* Line 155: self.model = RandomForestRegressor(...).
MLConstruct ==
    /\ ml.pc = "split"
    /\ model' = ConstructedModel
    /\ ml' = [ml EXCEPT !.pc = "constructed"]
    /\ UNCHANGED <<df, processed_df, ml2, harmonic, anomaly, lunar>>

\* Lines 156-165: self.model.fit(X_train, y_train) on whatever self.model
\* refers to, then the evaluation and last_row.
MLFit ==
    /\ ml.pc = "constructed"
    /\ model' = FittedModel(ml)
    /\ ml' = AfterFit(ml)
    /\ UNCHANGED <<df, processed_df, ml2, harmonic, anomaly, lunar>>

\* Lines 167-194, one iteration of the loop.
MLStep ==
    /\ ml.pc = "loop"
    /\ ml.i < PredictionSteps(ml.prediction_hours8)
    /\ ml' \in LoopIteration(ml, model)
    /\ UNCHANGED <<df, processed_df, model, ml2, harmonic, anomaly, lunar>>

\* Lines 196-205: the loop is over.
MLReturn ==
    /\ ml.pc = "loop"
    /\ ml.i >= PredictionSteps(ml.prediction_hours8)
    /\ ml' = Returned(ml, model)
    /\ UNCHANGED <<df, processed_df, model, ml2, harmonic, anomaly, lunar>>

(***************************************************************************)
(* A second ml_tide_prediction call running on the same instance while the *)
(* first is in progress (two threads).  It has its own locals, ml2, and    *)
(* shares self.model; each thread runs the same statements, and the        *)
(* threads interleave between them.                                        *)
(***************************************************************************)
\* Lines 125-153 of the second call, on the first call's series and horizon.
ML2Prepare ==
    /\ ml.pc # "none"
    /\ ml2.pc = "none"
    /\ ml2' = [Prepared(ml.df, ml.layout) EXCEPT !.prediction_hours8 = ml.prediction_hours8]
    /\ UNCHANGED <<df, processed_df, model, ml, harmonic, anomaly, lunar>>

\* Line 155 of the second call.
ML2Construct ==
    /\ ml2.pc = "split"
    /\ model' = ConstructedModel
    /\ ml2' = [ml2 EXCEPT !.pc = "constructed"]
    /\ UNCHANGED <<df, processed_df, ml, harmonic, anomaly, lunar>>

\* Lines 156-165 of the second call.
ML2Fit ==
    /\ ml2.pc = "constructed"
    /\ model' = FittedModel(ml2)
    /\ ml2' = AfterFit(ml2)
    /\ UNCHANGED <<df, processed_df, ml, harmonic, anomaly, lunar>>

\* Lines 167-194 of the second call, one iteration.
ML2Step ==
    /\ ml2.pc = "loop"
    /\ ml2.i < PredictionSteps(ml2.prediction_hours8)
    /\ ml2' \in LoopIteration(ml2, model)
    /\ UNCHANGED <<df, processed_df, model, ml, harmonic, anomaly, lunar>>

\* Lines 196-205 of the second call.
ML2Return ==
    /\ ml2.pc = "loop"
    /\ ml2.i >= PredictionSteps(ml2.prediction_hours8)
    /\ ml2' = Returned(ml2, model)
    /\ UNCHANGED <<df, processed_df, model, ml, harmonic, anomaly, lunar>>

(***************************************************************************)
(* harmonic_tide_prediction(df, prediction_hours)                          *)
(*                                                                         *)
(* The least-squares fit and the cosine sum are real arithmetic and are    *)
(* not modelled; the model keeps the time frame of the forecast: which     *)
(* elapsed time it starts from and which datetimes it returns.  Datetimes  *)
(* are multiples of 15 minutes, so the grid of np.arange is exact.         *)
(***************************************************************************)
MaxHarmonicRows == 3        \* longest series passed in
MaxHorizonEighths == 8      \* largest prediction_hours, in eighths of an hour

\* Row labellings of the frame passed in: the default 0..n-1, a filtered
\* frame's remaining integer labels, integer labels that start at -1, and
\* an index that is not of integer type (the datetimes themselves).
IndexKinds == {"range", "filtered", "from_minus_one", "datetime"}

IndexOf(kind, d) ==
    [integer |-> kind # "datetime",
     labels |-> [p \in DOMAIN d |->
                    CASE kind = "range" -> p - 1
                      [] kind = "filtered" -> 2 * p
                      [] kind = "from_minus_one" -> p - 2
                      [] kind = "datetime" -> d[p].datetime]]

HarmonicInputs ==
    {[d |-> [p \in 1..n |-> [datetime |-> start + gap * (p - 1), height |-> 10 + (p % 2)]],
      index |-> kind] :
        n \in 1..MaxHarmonicRows, start \in {0, 600}, gap \in {15, 60}, kind \in IndexKinds}

\* Lines 101 and 112, time_hours[-1]: on an integer index -1 is a label, and
\* the lookup raises KeyError when no row carries it; on any other index the
\* installed pandas either falls back to the last position or raises.
GetItemMinusOne(values, index, fallback) ==
    IF index.integer
    THEN IF \E p \in DOMAIN values : index.labels[p] = 0 - 1
         THEN [found |-> TRUE,
               value |-> values[CHOOSE p \in DOMAIN values : index.labels[p] = 0 - 1]]
         ELSE [found |-> FALSE, value |-> 0]
    ELSE IF fallback THEN [found |-> TRUE, value |-> values[Len(values)]]
         ELSE [found |-> FALSE, value |-> 0]

\* np.arange(start, start + prediction_hours, 0.25) - start, in minutes:
\* ceil(prediction_hours / 0.25) offsets 0, 15, 30, ...
ArangeOffsets(eighths) ==
    [k \in 1..(IF eighths <= 0 THEN 0 ELSE (eighths + 1) \div 2) |-> 15 * (k - 1)]

\* Constituents that would depend on the instance's model.
ConstituentsByModel ==
    IF model.state = "fitted" THEN {"M2"} ELSE {"M2", "S2", "N2", "K1", "O1", "P1"}

\* Lines 78-85: the dict of constituents is rebuilt in every call.
Constituents == {"M2", "S2", "N2", "K1", "O1", "P1"}

\* Lines 74-120.  time_hours is kept in minutes.
harmonic_tide_prediction(d, kind, eighths, fallback) ==
    LET least == SetMin({d[p].datetime : p \in DOMAIN d})
        time_hours == [p \in DOMAIN d |-> d[p].datetime - least]
        origin == GetItemMinusOne(time_hours, IndexOf(kind, d), fallback)
        offsets == ArangeOffsets(eighths)
    IN IF ~origin.found
       THEN [pc |-> "error", error |-> "KeyError", df |-> d, index |-> kind,
             positional_fallback |-> fallback,
             prediction_hours8 |-> eighths, origin |-> 0,
             prediction_df |-> <<>>, constituents |-> {}]
       ELSE [pc |-> "done", error |-> "", df |-> d, index |-> kind,
             positional_fallback |-> fallback,
             prediction_hours8 |-> eighths, origin |-> origin.value,
             prediction_df |->
                [k \in DOMAIN offsets |->
                    [datetime |-> d[Len(d)].datetime + offsets[k],
                     future_time |-> origin.value + offsets[k],
                     prediction_type |-> "harmonic"]],
             constituents |-> Constituents]

HarmonicTidePrediction ==
    /\ harmonic.pc = "none"
    /\ \E in \in HarmonicInputs, eighths \in 0..MaxHorizonEighths, fallback \in BOOLEAN :
          harmonic' = harmonic_tide_prediction(in.d, in.index, eighths, fallback)
    /\ UNCHANGED <<df, processed_df, model, ml, ml2, anomaly, lunar>>

\* A second call with the frame and horizon of the first, in the same
\* process (the installed pandas is the same); `first` keeps what the first
\* call returned or raised, `second` what this one does.
HarmonicTidePredictionAgain ==
    /\ harmonic.pc \in {"done", "error"}
    /\ harmonic' = [pc |-> "again",
                    first |-> harmonic,
                    second |-> harmonic_tide_prediction(harmonic.df, harmonic.index,
                                                        harmonic.prediction_hours8,
                                                        harmonic.positional_fallback)]
    /\ UNCHANGED <<df, processed_df, model, ml, ml2, anomaly, lunar>>

(***************************************************************************)
(* The least-squares fit and the cosine sum of harmonic_tide_prediction,   *)
(* in fixed point.  Heights are in millimetres here.  Cosines and sines    *)
(* are tabulated as round(100 * cos(2 pi t / period)) for t = 0, 0.25,     *)
(* 0.5, ... hours (entry q + 1 is t = q / 4 h) with the periods of lines   *)
(* 79-84.  Sums of products are divided by 100 before they are multiplied, *)
(* which keeps the arithmetic within 32 bits and the fitted coefficients   *)
(* within about 10 mm of the floating-point ones.                          *)
(***************************************************************************)
MinFitRows == 47        \* shortest series fitted
MaxFitRows == 48        \* longest series fitted
MaxFitHorizon == 12     \* largest prediction_hours, in eighths of an hour

CosTable ==
    [M2 |->
        <<100, 99, 97, 93, 87, 81, 73, 63, 53, 42, 30, 18, 5, -7, -20, -32,
          -44, -55, -65, -74, -82, -88, -94, -97, -99, -100, -99, -96, -92,
          -86, -79, -71, -62, -51, -40, -28, -16, -3, 9, 22, 34, 46, 56,
          66, 75, 83, 89, 94, 98, 100, 100, 99, 96, 91, 85, 78, 70, 60, 50,
          38, 26, 14, 1, -11, -24, -36, -47, -58, -68, -77, -84, -90, -95,
          -98, -100, -100, -98, -95, -90, -84, -77, -68, -59, -48, -36,
          -24, -12, 1, 13, 26, 38, 49, 60, 69, 78, 85, 91, 96, 99, 100,
          100, 98, 94, 90, 83, 76, 67, 57, 46, 35, 22, 10, -3, -15, -28,
          -40, -51, -61, -71, -79, -86, -92, -96, -99, -100, -99, -97, -94,
          -89, -82, -74, -65, -55, -44, -33, -20, -8, 5, 17, 30, 41, 53,
          63, 72, 80, 87, 93, 97, 99, 100, 99, 97, 93, 88, 81, 73, 64, 54,
          42, 31, 18, 6, -7, -19, -31, -43, -54, -64, -74, -81, -88, -93,
          -97, -99, -100, -99, -96, -92, -87, -80, -72, -62, -52, -41, -29,
          -16, -4, 9, 21, 33, 45, 56, 66, 75, 83, 89, 94, 98, 100, 100, 99,
          96, 92, 86, 79, 70, 61, 50, 39>>,
     S2 |->
        <<100, 99, 97, 92, 87, 79, 71, 61, 50, 38, 26, 13, 0, -13, -26,
          -38, -50, -61, -71, -79, -87, -92, -97, -99, -100, -99, -97, -92,
          -87, -79, -71, -61, -50, -38, -26, -13, 0, 13, 26, 38, 50, 61,
          71, 79, 87, 92, 97, 99, 100, 99, 97, 92, 87, 79, 71, 61, 50, 38,
          26, 13, 0, -13, -26, -38, -50, -61, -71, -79, -87, -92, -97, -99,
          -100, -99, -97, -92, -87, -79, -71, -61, -50, -38, -26, -13, 0,
          13, 26, 38, 50, 61, 71, 79, 87, 92, 97, 99, 100, 99, 97, 92, 87,
          79, 71, 61, 50, 38, 26, 13, 0, -13, -26, -38, -50, -61, -71, -79,
          -87, -92, -97, -99, -100, -99, -97, -92, -87, -79, -71, -61, -50,
          -38, -26, -13, 0, 13, 26, 38, 50, 61, 71, 79, 87, 92, 97, 99,
          100, 99, 97, 92, 87, 79, 71, 61, 50, 38, 26, 13, 0, -13, -26,
          -38, -50, -61, -71, -79, -87, -92, -97, -99, -100, -99, -97, -92,
          -87, -79, -71, -61, -50, -38, -26, -13, 0, 13, 26, 38, 50, 61,
          71, 79, 87, 92, 97, 99, 100, 99, 97, 92, 87, 79, 71, 61, 50, 38,
          26, 13, 0, -13, -26, -38, -50>>,
     N2 |->
        <<100, 99, 97, 93, 88, 81, 74, 65, 55, 44, 32, 20, 8, -4, -17, -29,
          -40, -51, -62, -71, -79, -86, -92, -96, -99, -100, -100, -98,
          -95, -90, -84, -76, -68, -58, -47, -36, -24, -12, 0, 13, 25, 37,
          48, 58, 68, 77, 84, 90, 95, 98, 100, 100, 99, 96, 91, 86, 79, 70,
          61, 51, 40, 28, 16, 4, -9, -21, -33, -44, -55, -65, -74, -82,
          -88, -93, -97, -99, -100, -99, -97, -93, -88, -81, -73, -64, -54,
          -43, -32, -20, -8, 5, 17, 29, 41, 52, 62, 71, 79, 86, 92, 96, 99,
          100, 100, 98, 94, 89, 83, 76, 67, 57, 47, 36, 24, 11, -1, -13,
          -25, -37, -48, -59, -68, -77, -84, -90, -95, -98, -100, -100,
          -98, -96, -91, -85, -78, -70, -61, -50, -39, -27, -15, -3, 9, 22,
          34, 45, 56, 66, 74, 82, 89, 94, 97, 99, 100, 99, 97, 93, 87, 81,
          73, 64, 54, 43, 31, 19, 7, -5, -18, -30, -41, -52, -63, -72, -80,
          -87, -92, -96, -99, -100, -100, -98, -94, -89, -83, -75, -67,
          -57, -46, -35, -23, -11, 2, 14, 26, 38, 49, 59, 69, 77, 85, 91,
          95, 98, 100, 100, 98, 95, 91, 85, 78>>,
     K1 |->
        <<100, 100, 99, 98, 97, 95, 92, 90, 87, 83, 79, 75, 71, 66, 61, 55,
          50, 44, 38, 32, 26, 19, 13, 6, 0, -7, -14, -20, -26, -33, -39,
          -45, -50, -56, -61, -66, -71, -76, -80, -84, -87, -90, -93, -95,
          -97, -98, -99, -100, -100, -100, -99, -98, -96, -94, -92, -89,
          -86, -83, -79, -74, -70, -65, -60, -55, -49, -43, -37, -31, -25,
          -18, -12, -5, 1, 8, 14, 21, 27, 33, 40, 45, 51, 57, 62, 67, 72,
          76, 80, 84, 87, 90, 93, 95, 97, 98, 99, 100, 100, 100, 99, 98,
          96, 94, 92, 89, 86, 82, 78, 74, 69, 64, 59, 54, 48, 42, 36, 30,
          24, 17, 11, 4, -2, -9, -15, -22, -28, -34, -40, -46, -52, -57,
          -63, -68, -72, -77, -81, -84, -88, -91, -93, -95, -97, -99, -99,
          -100, -100, -100, -99, -98, -96, -94, -91, -88, -85, -82, -78,
          -73, -69, -64, -59, -53, -47, -42, -36, -29, -23, -17, -10, -4,
          3, 10, 16, 23, 29, 35, 41, 47, 53, 58, 63, 68, 73, 77, 81, 85,
          88, 91, 94, 96, 97, 99, 100, 100, 100, 100, 99, 97, 96, 94, 91,
          88, 85, 81, 77, 73, 68, 63, 58, 52, 47>>,
     O1 |->
        <<100, 100, 99, 98, 97, 95, 93, 91, 88, 85, 82, 78, 75, 70, 66, 61,
          56, 51, 46, 40, 35, 29, 23, 17, 11, 5, -1, -7, -13, -19, -25,
          -31, -37, -42, -48, -53, -58, -63, -68, -72, -76, -80, -83, -87,
          -89, -92, -94, -96, -98, -99, -100, -100, -100, -100, -99, -98,
          -97, -95, -93, -90, -87, -84, -81, -77, -73, -69, -64, -59, -54,
          -49, -44, -38, -33, -27, -21, -15, -9, -3, 3, 9, 15, 21, 27, 33,
          39, 44, 50, 55, 60, 65, 69, 73, 77, 81, 84, 88, 90, 93, 95, 97,
          98, 99, 100, 100, 100, 99, 99, 97, 96, 94, 92, 89, 86, 83, 79,
          76, 72, 67, 62, 58, 53, 47, 42, 36, 31, 25, 19, 13, 7, 1, -5,
          -12, -18, -24, -29, -35, -41, -46, -52, -57, -62, -66, -71, -75,
          -79, -82, -86, -89, -91, -94, -96, -97, -98, -99, -100, -100,
          -100, -99, -98, -97, -95, -93, -91, -88, -85, -82, -78, -74, -70,
          -65, -61, -56, -51, -45, -40, -34, -28, -23, -17, -11, -4, 2, 8,
          14, 20, 26, 31, 37, 43, 48, 53, 58, 63, 68, 72, 76, 80, 84, 87,
          90, 92, 94, 96, 98, 99, 100, 100, 100, 100>>,
     P1 |->
        <<100, 100, 99, 98, 97, 95, 92, 90, 87, 83, 79, 75, 71, 66, 61, 56,
          50, 45, 39, 32, 26, 20, 13, 7, 0, -6, -13, -19, -25, -32, -38,
          -44, -50, -55, -60, -65, -70, -75, -79, -83, -86, -89, -92, -94,
          -96, -98, -99, -100, -100, -100, -99, -98, -97, -95, -93, -90,
          -87, -84, -80, -76, -71, -67, -62, -56, -51, -45, -39, -33, -27,
          -21, -14, -8, -1, 5, 12, 18, 25, 31, 37, 43, 49, 54, 60, 65, 70,
          74, 78, 82, 86, 89, 92, 94, 96, 98, 99, 100, 100, 100, 99, 98,
          97, 95, 93, 90, 88, 84, 80, 76, 72, 67, 62, 57, 52, 46, 40, 34,
          28, 22, 15, 9, 2, -4, -11, -17, -24, -30, -36, -42, -48, -54,
          -59, -64, -69, -74, -78, -82, -85, -89, -91, -94, -96, -98, -99,
          -100, -100, -100, -99, -99, -97, -96, -93, -91, -88, -85, -81,
          -77, -73, -68, -63, -58, -52, -47, -41, -35, -29, -22, -16, -10,
          -3, 4, 10, 16, 23, 29, 35, 41, 47, 53, 58, 63, 68, 73, 77, 81,
          85, 88, 91, 94, 96, 97, 99, 100, 100, 100, 100, 99, 97, 96, 94,
          91, 88, 85, 81, 78, 73, 69, 64, 59, 53>>]

SinTable ==
    [M2 |->
        <<0, 13, 25, 37, 48, 59, 69, 77, 85, 91, 95, 98, 100, 100, 98, 95,
          90, 84, 76, 67, 57, 47, 35, 23, 11, -2, -15, -27, -39, -50, -61,
          -70, -79, -86, -92, -96, -99, -100, -100, -98, -94, -89, -83,
          -75, -66, -56, -45, -33, -21, -9, 4, 17, 29, 41, 52, 62, 72, 80,
          87, 92, 96, 99, 100, 99, 97, 93, 88, 81, 73, 64, 54, 43, 31, 19,
          7, -6, -19, -31, -43, -54, -64, -73, -81, -88, -93, -97, -99,
          -100, -99, -97, -93, -87, -80, -72, -63, -52, -41, -29, -17, -5,
          8, 21, 33, 44, 55, 65, 74, 82, 89, 94, 97, 100, 100, 99, 96, 92,
          86, 79, 71, 61, 51, 39, 28, 15, 3, -10, -22, -35, -46, -57, -67,
          -76, -83, -90, -95, -98, -100, -100, -98, -96, -91, -85, -78,
          -69, -60, -49, -38, -26, -13, -1, 12, 24, 36, 48, 59, 68, 77, 84,
          91, 95, 98, 100, 100, 98, 95, 90, 84, 77, 68, 58, 47, 36, 24, 11,
          -1, -14, -26, -38, -50, -60, -70, -78, -86, -91, -96, -99, -100,
          -100, -98, -94, -89, -83, -75, -66, -56, -45, -34, -22, -9, 3,
          16, 28, 40, 51, 62, 71, 80, 87, 92>>,
     S2 |->
        <<0, 13, 26, 38, 50, 61, 71, 79, 87, 92, 97, 99, 100, 99, 97, 92,
          87, 79, 71, 61, 50, 38, 26, 13, 0, -13, -26, -38, -50, -61, -71,
          -79, -87, -92, -97, -99, -100, -99, -97, -92, -87, -79, -71, -61,
          -50, -38, -26, -13, 0, 13, 26, 38, 50, 61, 71, 79, 87, 92, 97,
          99, 100, 99, 97, 92, 87, 79, 71, 61, 50, 38, 26, 13, 0, -13, -26,
          -38, -50, -61, -71, -79, -87, -92, -97, -99, -100, -99, -97, -92,
          -87, -79, -71, -61, -50, -38, -26, -13, 0, 13, 26, 38, 50, 61,
          71, 79, 87, 92, 97, 99, 100, 99, 97, 92, 87, 79, 71, 61, 50, 38,
          26, 13, 0, -13, -26, -38, -50, -61, -71, -79, -87, -92, -97, -99,
          -100, -99, -97, -92, -87, -79, -71, -61, -50, -38, -26, -13, 0,
          13, 26, 38, 50, 61, 71, 79, 87, 92, 97, 99, 100, 99, 97, 92, 87,
          79, 71, 61, 50, 38, 26, 13, 0, -13, -26, -38, -50, -61, -71, -79,
          -87, -92, -97, -99, -100, -99, -97, -92, -87, -79, -71, -61, -50,
          -38, -26, -13, 0, 13, 26, 38, 50, 61, 71, 79, 87, 92, 97, 99,
          100, 99, 97, 92, 87>>,
     N2 |->
        <<0, 12, 25, 36, 48, 58, 68, 76, 84, 90, 95, 98, 100, 100, 99, 96,
          92, 86, 79, 71, 61, 51, 40, 28, 16, 4, -8, -21, -33, -44, -55,
          -65, -74, -82, -88, -93, -97, -99, -100, -99, -97, -93, -88, -81,
          -73, -64, -54, -44, -32, -20, -8, 5, 17, 29, 41, 52, 62, 71, 79,
          86, 92, 96, 99, 100, 100, 98, 94, 90, 83, 76, 67, 58, 47, 36, 24,
          12, -1, -13, -25, -37, -48, -59, -68, -77, -84, -90, -95, -98,
          -100, -100, -99, -96, -91, -86, -78, -70, -61, -51, -39, -28,
          -16, -3, 9, 21, 33, 45, 55, 65, 74, 82, 88, 93, 97, 99, 100, 99,
          97, 93, 87, 81, 73, 64, 54, 43, 32, 20, 7, -5, -17, -30, -41,
          -52, -62, -71, -80, -86, -92, -96, -99, -100, -100, -98, -94,
          -89, -83, -76, -67, -57, -47, -35, -23, -11, 1, 14, 26, 38, 49,
          59, 69, 77, 84, 90, 95, 98, 100, 100, 98, 95, 91, 85, 78, 70, 60,
          50, 39, 27, 15, 3, -10, -22, -34, -45, -56, -66, -75, -82, -89,
          -94, -97, -99, -100, -99, -97, -93, -87, -80, -72, -63, -53, -42,
          -31, -19, -7, 6, 18, 30, 42, 53, 63>>,
     K1 |->
        <<0, 7, 13, 20, 26, 32, 38, 44, 50, 56, 61, 66, 71, 75, 79, 83, 87,
          90, 93, 95, 97, 98, 99, 100, 100, 100, 99, 98, 96, 95, 92, 89,
          86, 83, 79, 75, 70, 65, 60, 55, 49, 44, 38, 31, 25, 19, 12, 6,
          -1, -7, -14, -20, -27, -33, -39, -45, -51, -56, -62, -67, -71,
          -76, -80, -84, -87, -90, -93, -95, -97, -98, -99, -100, -100,
          -100, -99, -98, -96, -94, -92, -89, -86, -82, -78, -74, -70, -65,
          -60, -54, -49, -43, -37, -31, -24, -18, -11, -5, 2, 8, 15, 21,
          28, 34, 40, 46, 52, 57, 62, 67, 72, 76, 81, 84, 88, 91, 93, 95,
          97, 98, 99, 100, 100, 100, 99, 98, 96, 94, 92, 89, 85, 82, 78,
          74, 69, 64, 59, 54, 48, 42, 36, 30, 23, 17, 11, 4, -3, -9, -16,
          -22, -28, -35, -41, -47, -52, -58, -63, -68, -73, -77, -81, -85,
          -88, -91, -93, -96, -97, -99, -99, -100, -100, -100, -99, -97,
          -96, -94, -91, -88, -85, -81, -77, -73, -68, -63, -58, -53, -47,
          -41, -35, -29, -23, -16, -10, -3, 3, 10, 16, 23, 29, 35, 42, 47,
          53, 59, 64, 69, 73, 78, 82, 85, 88>>,
     O1 |->
        <<0, 6, 12, 18, 24, 30, 36, 41, 47, 52, 57, 62, 67, 71, 75, 79, 83,
          86, 89, 92, 94, 96, 97, 99, 99, 100, 100, 100, 99, 98, 97, 95,
          93, 91, 88, 85, 81, 78, 74, 70, 65, 60, 55, 50, 45, 39, 34, 28,
          22, 16, 10, 4, -2, -8, -14, -20, -26, -32, -38, -43, -49, -54,
          -59, -64, -68, -73, -77, -80, -84, -87, -90, -92, -95, -96, -98,
          -99, -100, -100, -100, -100, -99, -98, -96, -94, -92, -90, -87,
          -84, -80, -76, -72, -68, -63, -59, -53, -48, -43, -37, -32, -26,
          -20, -14, -8, -2, 4, 10, 16, 22, 28, 34, 40, 45, 51, 56, 61, 65,
          70, 74, 78, 82, 85, 88, 91, 93, 95, 97, 98, 99, 100, 100, 100,
          99, 98, 97, 96, 94, 91, 89, 86, 82, 79, 75, 71, 66, 62, 57, 52,
          46, 41, 35, 29, 24, 18, 12, 6, -1, -7, -13, -19, -25, -30, -36,
          -42, -47, -52, -58, -62, -67, -71, -76, -79, -83, -86, -89, -92,
          -94, -96, -97, -99, -99, -100, -100, -100, -99, -98, -97, -95,
          -93, -90, -88, -85, -81, -77, -73, -69, -65, -60, -55, -50, -44,
          -39, -33, -27, -21, -15, -9, -3, 3, 9>>,
     P1 |->
        <<0, 7, 13, 19, 26, 32, 38, 44, 50, 55, 61, 66, 71, 75, 79, 83, 86,
          90, 92, 95, 96, 98, 99, 100, 100, 100, 99, 98, 97, 95, 93, 90,
          87, 83, 80, 76, 71, 66, 61, 56, 51, 45, 39, 33, 27, 20, 14, 7, 1,
          -6, -12, -19, -25, -31, -37, -43, -49, -55, -60, -65, -70, -74,
          -79, -83, -86, -89, -92, -94, -96, -98, -99, -100, -100, -100,
          -99, -98, -97, -95, -93, -90, -87, -84, -80, -76, -72, -67, -62,
          -57, -51, -46, -40, -34, -27, -21, -15, -8, -2, 5, 11, 18, 24,
          30, 37, 43, 48, 54, 59, 64, 69, 74, 78, 82, 86, 89, 92, 94, 96,
          98, 99, 100, 100, 100, 99, 98, 97, 95, 93, 91, 88, 84, 81, 77,
          72, 68, 63, 58, 52, 46, 41, 34, 28, 22, 16, 9, 3, -4, -10, -17,
          -23, -30, -36, -42, -48, -53, -59, -64, -69, -73, -78, -82, -85,
          -88, -91, -94, -96, -97, -99, -100, -100, -100, -99, -99, -97,
          -96, -94, -91, -88, -85, -81, -77, -73, -68, -63, -58, -53, -47,
          -41, -35, -29, -23, -16, -10, -3, 3, 10, 16, 22, 29, 35, 41, 47,
          53, 58, 63, 68, 73, 77, 81, 85>>]

\* Mean levels and amplitudes of the series passed in, in tenths of a metre.
FitMeans == {0, 15}

FitAmplitudes == {5, 10}

\* n hourly samples of mean + amplitude * cos(2 pi t / 12.4206), from t = 0.
FitSeries(n, mean, amplitude) ==
    [p \in 1..n |-> [datetime |-> 60 * (p - 1),
                     height |-> 100 * mean + amplitude * CosTable.M2[4 * (p - 1) + 1]]]

\* Lines 88-95 for constituent c: np.linalg.lstsq of heights on the two
\* columns cos(omega t), sin(omega t), without intercept, by its normal
\* equations.  coeffs[0] is a, coeffs[1] is b, in millimetres.
LeastSquares(c, heights, time_hours) ==
    LET n == Len(heights)
        cos_component == [p \in 1..n |-> CosTable[c][(time_hours[p] \div 15) + 1]]
        sin_component == [p \in 1..n |-> SinTable[c][(time_hours[p] \div 15) + 1]]
        cc == SumSquares(cos_component, 1, n) \div 100
        ss == SumSquares(sin_component, 1, n) \div 100
        cs == SumOver([p \in 1..n |-> cos_component[p] * sin_component[p]], 1, n) \div 100
        yc == SumOver([p \in 1..n |-> heights[p] * cos_component[p]], 1, n) \div 100
        ys == SumOver([p \in 1..n |-> heights[p] * sin_component[p]], 1, n) \div 100
        det == (cc * ss - cs * cs) \div 100
    IN [a |-> (yc * ss - ys * cs) \div det,
        b |-> (ys * cc - yc * cs) \div det]

\* The constituents in the order of the dict (lines 78-85).
ConstituentOrder == <<"M2", "S2", "N2", "K1", "O1", "P1">>

\* Lines 96-109 at future time q / 4 h: mean_height plus, for every
\* constituent, amp * cos(omega t + phase) with amp = sqrt(a^2 + b^2) and
\* phase = arctan2(b, a), which is a * cos(omega t) - b * sin(omega t).
PredictedHeight(coeffs, mean_height, q) ==
    mean_height
        + SumOver([j \in 1..Len(ConstituentOrder) |->
                      LET c == ConstituentOrder[j]
                      IN (coeffs[c].a * CosTable[c][q + 1]
                             - coeffs[c].b * SinTable[c][q + 1]) \div 100],
                  1, Len(ConstituentOrder))

\* harmonic_tide_prediction with its numbers: the fit of every constituent,
\* the mean, and the predicted height of every forecast point.
HarmonicFit ==
    /\ harmonic.pc = "none"
    /\ \E n \in MinFitRows..MaxFitRows, mean \in FitMeans, amplitude \in FitAmplitudes :
          LET d == FitSeries(n, mean, amplitude)
              heights == [p \in 1..n |-> d[p].height]
              time_hours == [p \in 1..n |-> d[p].datetime - d[1].datetime]
              coeffs == [c \in Constituents |-> LeastSquares(c, heights, time_hours)]
              mean_height == SumOver(heights, 1, n) \div n
          IN \E kind \in IndexKinds, eighths \in 0..MaxFitHorizon, fallback \in BOOLEAN :
                LET frame == harmonic_tide_prediction(d, kind, eighths, fallback)
                IN harmonic' =
                      [pc |-> frame.pc,
                       error |-> frame.error,
                       signal |-> [n |-> n, mean |-> mean, amplitude |-> amplitude],
                       frame |-> frame,
                       coeffs |-> coeffs,
                       mean_height |-> mean_height,
                       predicted_height |->
                          [k \in DOMAIN frame.prediction_df |->
                              PredictedHeight(coeffs, mean_height,
                                              frame.prediction_df[k].future_time \div 15)]]
    /\ UNCHANGED <<df, processed_df, model, ml, ml2, anomaly, lunar>>

(***************************************************************************)
(* tidal_anomaly_detection(df)                                             *)
(***************************************************************************)
MaxAnomalyRows == 26        \* longest series passed in
MinLongRows == 23           \* the long series passed in start at this length
MaxShortRows == 2           \* the short series passed in are 0..MaxShortRows long

window == 24
z_threshold_num == 5
z_threshold_den == 2
contamination_percent == 5

\* The series passed in, hourly from 10 January 00:00: constant height 1.0,
\* or constant but for one sample of height 1.1 or 10.0 at any position, or
\* a repeating 1.0, 1.1, 1.2 pattern.
AnomalyHeights(n) ==
    {[p \in 1..n |-> 10]}
    \cup {[p \in 1..n |-> IF p = at THEN v ELSE 10] : at \in 1..n, v \in {11, 100}}
    \cup {[p \in 1..n |-> 10 + (p % 3)]}

AnomalyInputs ==
    UNION {{[p \in 1..n |-> [datetime |-> 9 * 1440 + 60 * (p - 1), height |-> h[p]]] :
                h \in AnomalyHeights(n)} :
           n \in (0..MaxShortRows) \cup (MinLongRows..MaxAnomalyRows)}

\* rolling(window=24) without center=True: the trailing window p-23..p.
TrailingWindow(n, p) ==
    [valid |-> p - window + 1 >= 1, first |-> p - window + 1, last |-> p]

\* rolling(window=24, center=True, min_periods=1): the part of the centered
\* window that lies inside the series.
PartialWindow(n, p) ==
    [valid |-> TRUE,
     first |-> Max2(1, p - (window \div 2)),
     last |-> IF p + ((window - 1) \div 2) <= n THEN p + ((window - 1) \div 2) ELSE n]

\* Lines 213-214, rolling(window=24, center=True): the window of row p is
\* the 24 rows p-12..p+11; the statistic is NaN unless all of them exist.
CenteredWindow(n, p) ==
    LET first == p - (window \div 2)
        last == p + ((window - 1) \div 2)
    IN [valid |-> first >= 1 /\ last <= n, first |-> first, last |-> last]

\* val is the window's sum (the mean times 24).
AnomalyRollingMean(heights, p) ==
    LET w == CenteredWindow(Len(heights), p)
    IN IF ~w.valid THEN NaN ELSE Cell(SumOver(heights, w.first, w.last), w.first..w.last)

\* val is 24 * sum(x^2) - sum(x)^2 (the variance times 24 * 23).
AnomalyRollingStd(heights, p) ==
    LET w == CenteredWindow(Len(heights), p)
        sum == SumOver(heights, w.first, w.last)
    IN IF ~w.valid THEN NaN
       ELSE Cell(window * SumSquares(heights, w.first, w.last) - sum * sum, w.first..w.last)

\* A flag written as ~(z_score <= 2.5): true for a z-score that is NaN.
IsAnomalyNotBelow(height, rolling_mean, rolling_std) ==
    IF rolling_mean.nan \/ rolling_std.nan THEN TRUE
    ELSE LET diff == window * height - rolling_mean.val
         IN IF rolling_std.val = 0 THEN TRUE
            ELSE z_threshold_den * z_threshold_den * (window - 1) * diff * diff
                    > z_threshold_num * z_threshold_num * window * rolling_std.val

\* Lines 217-218: z_score = |height - rolling_mean| / rolling_std, and
\* is_anomaly = z_score > 2.5.  A NaN statistic gives a NaN z-score, and so
\* does 0/0; x/0 with x # 0 is infinite; neither division raises.  Otherwise
\* z > 5/2 is compared on the squares, over the common denominators.
IsAnomaly(height, rolling_mean, rolling_std) ==
    IF rolling_mean.nan \/ rolling_std.nan THEN FALSE
    ELSE LET diff == window * height - rolling_mean.val
         IN IF rolling_std.val = 0 THEN diff # 0
            ELSE z_threshold_den * z_threshold_den * (window - 1) * diff * diff
                    > z_threshold_num * z_threshold_num * window * rolling_std.val

\* Lines 224-226, IsolationForest(contamination=0.05).fit_predict: the rows
\* whose score is below the 5th percentile of all the scores are -1.  With
\* the scores sorted and q = 0.05 * (n - 1), the percentile lies between the
\* scores of rank floor(q) and floor(q) + 1, so at most floor(q) + 1 rows lie
\* below it (floor(q) when q is whole).  The scores themselves are the
\* forest's: the model leaves open which rows those are.
MaxIsolated(n) ==
    IF n = 0 THEN 0
    ELSE LET q100 == contamination_percent * (n - 1)
         IN IF q100 % 100 = 0 THEN q100 \div 100 ELSE (q100 \div 100) + 1

\* The subsets of S of at most k elements.
RECURSIVE SubsetsUpTo(_, _)
SubsetsUpTo(S, k) ==
    IF k <= 0 THEN {{}}
    ELSE LET smaller == SubsetsUpTo(S, k - 1)
         IN smaller \cup {F \cup {x} : F \in smaller, x \in S}

IsolationOutcomes(n) == SubsetsUpTo(1..n, MaxIsolated(n))

\* Both flags required.
CombineBoth(is_anomaly, is_multivariate_anomaly) ==
    [p \in DOMAIN is_anomaly |-> is_anomaly[p] /\ is_multivariate_anomaly[p]]

\* Line 229: is_anomaly | is_multivariate_anomaly.
Combine(is_anomaly, is_multivariate_anomaly) ==
    [p \in DOMAIN is_anomaly |-> is_anomaly[p] \/ is_multivariate_anomaly[p]]

\* Line 234: df_copy[df_copy['combined_anomaly']]['datetime'].tolist().
RECURSIVE FlaggedDates(_, _)
FlaggedDates(d, flags) ==
    IF d = <<>> THEN <<>>
    ELSE (IF Head(flags) THEN <<Head(d).datetime>> ELSE <<>>)
         \o FlaggedDates(Tail(d), Tail(flags))

CountTrue(flags) == Cardinality({p \in DOMAIN flags : flags[p]})

\* Lines 231-235.  anomaly_percentage = (sum / len) * 100 is kept as the
\* fraction num / den.
AnomalySummary(d, combined) ==
    [total_anomalies |-> CountTrue(combined),
     anomaly_percentage |-> [num |-> CountTrue(combined) * 100, den |-> Len(d)],
     anomaly_dates |-> FlaggedDates(d, combined)]

\* Lines 209-218: the copy, the centered rolling statistics, the z-score
\* flag.
AnomalyRolling ==
    /\ anomaly.pc = "none"
    /\ \E d \in AnomalyInputs :
          LET heights == [p \in DOMAIN d |-> d[p].height]
              rolling_mean == [p \in DOMAIN d |-> AnomalyRollingMean(heights, p)]
              rolling_std == [p \in DOMAIN d |-> AnomalyRollingStd(heights, p)]
          IN anomaly' =
                [pc |-> "scored", error |-> "", df |-> d,
                 rolling_mean |-> rolling_mean, rolling_std |-> rolling_std,
                 is_anomaly |-> [p \in DOMAIN d |->
                                    IsAnomaly(heights[p], rolling_mean[p], rolling_std[p])],
                 is_multivariate_anomaly |-> <<>>, combined_anomaly |-> <<>>,
                 anomaly_summary |-> [total_anomalies |-> 0,
                                      anomaly_percentage |-> [num |-> 0, den |-> 0],
                                      anomaly_dates |-> <<>>]]
    /\ UNCHANGED <<df, processed_df, model, ml, ml2, harmonic, lunar>>

\* Lines 220-237: the isolation forest, the combined flag, the summary.
\* fit_predict raises ValueError on a frame with no rows.
AnomalyIsolate ==
    /\ anomaly.pc = "scored"
    /\ IF Len(anomaly.df) = 0
       THEN anomaly' = [anomaly EXCEPT !.pc = "error", !.error = "ValueError"]
       ELSE \E isolated \in IsolationOutcomes(Len(anomaly.df)) :
               LET is_multivariate_anomaly == [p \in DOMAIN anomaly.df |-> p \in isolated]
                   combined_anomaly == Combine(anomaly.is_anomaly, is_multivariate_anomaly)
               IN anomaly' = [anomaly EXCEPT
                     !.pc = "done",
                     !.is_multivariate_anomaly = is_multivariate_anomaly,
                     !.combined_anomaly = combined_anomaly,
                     !.anomaly_summary = AnomalySummary(anomaly.df, combined_anomaly)]
    /\ UNCHANGED <<df, processed_df, model, ml, ml2, harmonic, lunar>>

(***************************************************************************)
(* add_lunar_features(df).  The moon's illuminated fraction is kept in     *)
(* percent and tabulated per day of 2023 at 00:00 (entry d is day_of_year  *)
(* d) from the synodic month: full on 7 January, new on 22 January.        *)
(***************************************************************************)
MaxLunarRows == 3           \* longest frame passed in
MaxLunarStart == 9          \* latest first day of a frame, in days after 1 January

MoonIllumination ==
    <<63, 72, 81, 89, 95, 98, 100, 99, 96, 91, 84, 76, 66, 56, 45, 35, 25, 17, 10, 4,
      1, 0, 1, 5, 10, 17, 26, 36, 46, 57, 67, 77, 85, 92, 97, 99, 100, 98, 94, 88>>

moon_phases ==
    <<"New Moon", "Waxing Crescent", "First Quarter", "Waxing Gibbous",
      "Full Moon", "Waning Gibbous", "Last Quarter", "Waning Crescent">>

\* Lines 21-42: phase = moon.moon_phase, phase_index = int((phase * 8) % 8).
calculate_moon_phase(date) ==
    LET phase == MoonIllumination[DayOfYear(date)]
        phase_index == ((phase * 8) \div 100) % 8
    IN [phase_value |-> phase,
        phase_name |-> moon_phases[phase_index + 1],
        illumination |-> phase]

LunarGaps == {1440, 3 * 1440}

LunarInputs ==
    {[d |-> [p \in 1..n |-> [datetime |-> 1440 * start + gap * (p - 1)]], index |-> kind] :
        n \in 0..MaxLunarRows, start \in 0..MaxLunarStart, gap \in LunarGaps,
        kind \in IndexKinds}

\* Lines 55-57, df_copy[col] = moon_df[col]: moon_df is labelled 0..n-1 in
\* the order of the rows, and the assignment aligns on labels: a row of
\* df_copy gets the value of the moon_df row carrying its label, NaN when
\* none does.
LunarRows(d, index) ==
    [p \in DOMAIN d |->
        LET label == index.labels[p]
            found == index.integer /\ label \in 0..(Len(d) - 1)
            moon_info == calculate_moon_phase(d[IF found THEN label + 1 ELSE p].datetime)
            aligned(v) == IF found THEN Cell(v, {label + 1}) ELSE NaN
        IN [datetime |-> d[p].datetime,
            moon_phase |-> aligned(moon_info.phase_value),
            moon_phase_name |-> aligned(moon_info.phase_name),
            moon_illumination |-> aligned(moon_info.illumination)]]

\* Lines 44-69.  Of a frame without rows moon_df has no columns, and line 55
\* raises KeyError.
add_lunar_features(d, kind) ==
    IF Len(d) = 0
    THEN [pc |-> "error", error |-> "KeyError", df |-> d, index |-> kind, df_copy |-> <<>>]
    ELSE [pc |-> "done", error |-> "", df |-> d, index |-> kind,
          df_copy |-> LunarRows(d, IndexOf(kind, d))]

AddLunarFeatures ==
    /\ lunar.pc = "none"
    /\ \E in \in LunarInputs : lunar' = add_lunar_features(in.d, in.index)
    /\ UNCHANGED <<df, processed_df, model, ml, ml2, harmonic, anomaly>>

(***************************************************************************)
(* TideDataProcessor: the operations that follow the detection.  Of the    *)
(* columns add_tidal_features derives, the frame keeps tidal_range (a      *)
(* fraction num / den, in tenths of a metre) and height_change.            *)
(***************************************************************************)
\* Lines 60-69: the mean 'high' height minus the mean 'low' height when
\* there are more than one of each, else the range of the heights.
TidalRange(rows) ==
    LET heights == [p \in DOMAIN rows |-> rows[p].height]
        of(type) == [p \in DOMAIN rows |-> IF rows[p].tide_type = type THEN heights[p] ELSE 0]
        count(type) == Cardinality({p \in DOMAIN rows : rows[p].tide_type = type})
    IN IF count("high") > 1 /\ count("low") > 1
       THEN [num |-> SumOver(of("high"), 1, Len(rows)) * count("low")
                        - SumOver(of("low"), 1, Len(rows)) * count("high"),
             den |-> count("high") * count("low")]
       ELSE [num |-> SetMax(Range(heights)) - SetMin(Range(heights)), den |-> 1]

\* Lines 57-103 on a frame of at least one row: the copy of processed_df
\* with the derived columns added (or overwritten).
add_tidal_features(rows) ==
    [p \in DOMAIN rows |->
        [datetime |-> rows[p].datetime,
         height |-> rows[p].height,
         label |-> rows[p].label,
         tide_type |-> rows[p].tide_type,
         tidal_range |-> TidalRange(rows),
         height_change |-> IF p = 1 THEN NaN
                           ELSE Cell(rows[p].height - rows[p - 1].height, {})]]

\* Lines 54-55 and the like: processed_df as the operation finds it, or as
\* detect_high_low_tides makes it when it is still None.
DetectedIfNone ==
    IF processed_df.isNone THEN Frame(detect_high_low_tides(df.rows)) ELSE processed_df

\* self.processed_df after add_tidal_features.  On a frame without rows
\* pd.cut (line 96) raises ValueError before line 102 assigns the result.
AfterAddTidalFeatures ==
    IF Len(DetectedIfNone.rows) = 0 THEN DetectedIfNone
    ELSE Frame(add_tidal_features(DetectedIfNone.rows))

\* detect_high_low_tides called when processed_df is already set: it sorts
\* and labels self.df again and assigns the result to self.processed_df.
DetectHighLowTidesAgain ==
    /\ ~df.isNone
    /\ ~processed_df.isNone
    /\ processed_df' = Frame(detect_high_low_tides(df.rows))
    /\ UNCHANGED <<df, model, ml, ml2, harmonic, anomaly, lunar>>

AddTidalFeatures ==
    /\ ~df.isNone
    /\ processed_df' = AfterAddTidalFeatures
    /\ UNCHANGED <<df, model, ml, ml2, harmonic, anomaly, lunar>>

\* perform_harmonic_analysis, calculate_statistics and
\* create_interpolated_series call add_tidal_features when processed_df is
\* None; after that they work on a copy (line 110), read (line 141) or sort
\* into a new frame (line 166) and assign nothing to self.
PerformHarmonicAnalysis ==
    /\ ~df.isNone
    /\ processed_df' = IF processed_df.isNone THEN AfterAddTidalFeatures ELSE processed_df
    /\ UNCHANGED <<df, model, ml, ml2, harmonic, anomaly, lunar>>

CalculateStatistics ==
    /\ ~df.isNone
    /\ processed_df' = IF processed_df.isNone THEN AfterAddTidalFeatures ELSE processed_df
    /\ UNCHANGED <<df, model, ml, ml2, harmonic, anomaly, lunar>>

CreateInterpolatedSeries ==
    /\ ~df.isNone
    /\ processed_df' = IF processed_df.isNone THEN AfterAddTidalFeatures ELSE processed_df
    /\ UNCHANGED <<df, model, ml, ml2, harmonic, anomaly, lunar>>

(***************************************************************************)
(* Specifications                                                          *)
(***************************************************************************)
InitExtrema ==
    /\ ProcInit
    /\ AnalyticsInit

NextExtrema ==
    \/ LoadData
    \/ DetectHighLowTides

SpecExtrema == InitExtrema /\ [][NextExtrema]_vars

InitML ==
    /\ ProcInit
    /\ AnalyticsInit

NextML ==
    \/ MLPrepare
    \/ MLPrepareAgain
    \/ MLConstruct
    \/ MLFit
    \/ MLStep
    \/ MLReturn

SpecML == InitML /\ [][NextML]_vars

InitHarmonic ==
    /\ ProcInit
    /\ AnalyticsInit

NextHarmonic == HarmonicTidePrediction

SpecHarmonic == InitHarmonic /\ [][NextHarmonic]_vars

InitAnomaly ==
    /\ ProcInit
    /\ AnalyticsInit

NextAnomaly ==
    \/ AnomalyRolling
    \/ AnomalyIsolate

SpecAnomaly == InitAnomaly /\ [][NextAnomaly]_vars

\* Two harmonic calls with the same arguments, with an ML call on the same
\* instance running at any point after the first: one series long enough to
\* be fitted and the empty series, which raises.
PureMLInputs ==
    {[d |-> HourlySeries(n, 14 * 1440 + 12 * 60, 0), layout |-> RawLayout] : n \in {0, MaxMLRows}}

InitPure ==
    /\ ProcInit
    /\ AnalyticsInit

NextPure ==
    \/ HarmonicTidePrediction
    \/ harmonic.pc # "none" /\ MLPrepareFrom(PureMLInputs, {2})
    \/ MLConstruct
    \/ MLFit
    \/ MLStep
    \/ MLReturn
    \/ HarmonicTidePredictionAgain

SpecPure == InitPure /\ [][NextPure]_vars

\* The harmonic fit and forecast with their numbers.
InitFit ==
    /\ ProcInit
    /\ AnalyticsInit

NextFit == HarmonicFit

SpecFit == InitFit /\ [][NextFit]_vars

\* The extrema of a sampled sinusoid.
InitProcessor ==
    /\ ProcInit
    /\ AnalyticsInit

NextProcessor ==
    \/ LoadData
    \/ DetectHighLowTides
    \/ DetectHighLowTidesAgain
    \/ AddTidalFeatures
    \/ PerformHarmonicAnalysis
    \/ CalculateStatistics
    \/ CreateInterpolatedSeries

SpecProcessor == InitProcessor /\ [][NextProcessor]_vars

InitLunar ==
    /\ ProcInit
    /\ AnalyticsInit

NextLunar == AddLunarFeatures

SpecLunar == InitLunar /\ [][NextLunar]_vars

InitSinusoid ==
    /\ ProcInit
    /\ AnalyticsInit

NextSinusoid ==
    \/ LoadSinusoid
    \/ DetectHighLowTides

SpecSinusoid == InitSinusoid /\ [][NextSinusoid]_vars

\* Each of the four operations on its own: a behaviour loads and labels a
\* series, or runs ML calls, or harmonic calls, or an anomaly detection.
InitSnapshot ==
    /\ ProcInit
    /\ AnalyticsInit

NextSnapshot ==
    \/ ml.pc = "none" /\ harmonic.pc = "none" /\ anomaly.pc = "none" /\ LoadData
    \/ DetectHighLowTides
    \/ df.isNone /\ harmonic.pc = "none" /\ anomaly.pc = "none" /\ MLPrepare
    \/ MLPrepareAgain
    \/ MLConstruct
    \/ MLFit
    \/ MLStep
    \/ MLReturn
    \/ df.isNone /\ ml.pc = "none" /\ anomaly.pc = "none" /\ HarmonicTidePrediction
    \/ HarmonicTidePredictionAgain
    \/ df.isNone /\ ml.pc = "none" /\ harmonic.pc = "none" /\ AnomalyRolling
    \/ AnomalyIsolate

SpecSnapshot == InitSnapshot /\ [][NextSnapshot]_vars

\* Two ml_tide_prediction calls on one instance, interleaved.
InitConcurrent ==
    /\ ProcInit
    /\ AnalyticsInit

NextConcurrent ==
    \/ MLPrepareFrom(PureMLInputs, 0..MaxPredictionEighths)
    \/ MLConstruct
    \/ MLFit
    \/ MLStep
    \/ MLReturn
    \/ ML2Prepare
    \/ ML2Construct
    \/ ML2Fit
    \/ ML2Step
    \/ ML2Return

SpecConcurrent == InitConcurrent /\ [][NextConcurrent]_vars

(***************************************************************************)
(* Claims                                                                  *)
(***************************************************************************)
\* C4: in every series labelled by detect_high_low_tides, the chronologically
\* first and the chronologically last sample are 'normal', never 'high' or
\* 'low'.
C4_BoundaryNormal ==
    (~processed_df.isNone /\ Len(processed_df.rows) >= 1) =>
        /\ processed_df.rows[1].tide_type = "normal"
        /\ processed_df.rows[Len(processed_df.rows)].tide_type = "normal"

\* C4 witness: a labelled series that has a 'high' and a 'low' inside it,
\* was loaded out of time order, and whose ends are 'normal'.
C4_Witness ==
    /\ ~processed_df.isNone
    /\ Len(processed_df.rows) >= 4
    /\ \E p \in DOMAIN processed_df.rows : processed_df.rows[p].tide_type = "high"
    /\ \E p \in DOMAIN processed_df.rows : processed_df.rows[p].tide_type = "low"
    /\ \E p \in DOMAIN df.rows : df.rows[p].label # processed_df.rows[p].label
    /\ processed_df.rows[1].tide_type = "normal"
    /\ processed_df.rows[Len(processed_df.rows)].tide_type = "normal"

(***************************************************************************)
(* ML forecast                                                             *)
(***************************************************************************)
\* Position in the input of the row the forecast starts from (line 164).
StartPos == ml.df_clean[Len(ml.df_clean)].label + 1

StartDatetime == ml.df_clean[Len(ml.df_clean)].cells[<<"", "datetime">>].val

FeatureOf(X, col) == X.values[CHOOSE k \in DOMAIN X.names : X.names[k] = col]

\* C1: a returned ML forecast has int(prediction_hours * 4) points, all
\* tagged 'ml', the first one step (15 minutes) after the row the forecast
\* starts from and each next one exactly 15 minutes after the previous one.
C1_ForecastGrid ==
    ml.pc = "done" =>
        /\ Len(ml.predictions) = (ml.prediction_hours8 * 4) \div 8
        /\ \A k \in DOMAIN ml.predictions :
              /\ ml.predictions[k].prediction_type = "ml"
              /\ ml.predictions[k].datetime = StartDatetime + 15 * k

\* C2: for every k >= 1 the feature vector of step k+1 is built on the
\* prediction of step k: its height_lag_1 is that predicted height, and its
\* rolling means and standard deviations are taken over windows holding it.
C2_WindowsAdvance ==
    ml.pc \in {"loop", "done"} =>
        \A k \in 1..(Len(ml.X_future) - 1) :
            LET X == ml.X_future[k + 1]
            IN /\ FeatureOf(X, LagColumn(1)).val = ml.predictions[k].predicted_height
               /\ FeatureOf(X, LagColumn(1)).src = {0 - k}
               /\ \A w \in Range(Windows) :
                     /\ (0 - k) \in FeatureOf(X, MeanColumn(w)).src
                     /\ (0 - k) \in FeatureOf(X, StdColumn(w)).src

\* C9: at every step k of the forecast loop each height-derived feature comes
\* only from rows observed at or before the starting row (all of them earlier
\* than the step's timestamp) and from heights predicted at steps before k.
C9_NoLeakage ==
    ml.pc \in {"loop", "done"} =>
        \A k \in DOMAIN ml.X_future :
            \A j \in DOMAIN ml.X_future[k].values :
                \A q \in ml.X_future[k].values[j].src :
                    \/ /\ q >= 1
                       /\ q <= StartPos
                       /\ ml.df[q].datetime < ml.predictions[k].datetime
                    \/ /\ q < 0
                       /\ 0 - q < k

\* C9 witness: a returned forecast of two or more steps that started from a
\* row which is not the last of the input, so that observed heights later
\* than the starting row exist, and whose features do use observed heights.
C9_Witness ==
    /\ ml.pc = "done"
    /\ Len(ml.X_future) >= 2
    /\ StartPos < Len(ml.df)
    /\ FeatureOf(ml.X_future[2], LagColumn(1)).src = {StartPos - 1}
    /\ C9_NoLeakage

\* C10: every prediction of the loop hands the model exactly the ordered
\* feature names it was fitted with, and the feature-importance map of a
\* returned call has exactly one entry per fitted feature.
C10_SameFeatureList ==
    /\ ml.pc \in {"loop", "done"} =>
          /\ model.state = "fitted"
          /\ \A k \in DOMAIN ml.X_future :
                ml.X_future[k].names = model.feature_names_in
    /\ ml.pc = "done" =>
          /\ ml.feature_importance = Range(model.feature_names_in)
          /\ Cardinality(ml.feature_importance) = Len(model.feature_names_in)

\* C10 witness: a returned forecast of two or more steps on an instance whose
\* model had, on entry, been fitted with a different feature list.
C10_Witness ==
    /\ ml.pc = "done"
    /\ Len(ml.X_future) >= 2
    /\ ml.model_on_entry.state = "fitted"
    /\ ml.model_on_entry.feature_names_in # ml.feature_columns
    /\ ml.X_future[2].names = model.feature_names_in

(***************************************************************************)
(* Harmonic forecast                                                       *)
(***************************************************************************)
\* C3: a returned harmonic forecast is the sequence of points at
\* last_observed + k * 15 minutes for k = 1 .. ceil(horizon_hours * 60 / 15):
\* it starts one step after the last observed sample and ends at
\* last_observed + horizon_hours.
C3_HarmonicGrid ==
    harmonic.pc = "done" =>
        LET last_observed == harmonic.df[Len(harmonic.df)].datetime
            steps == (harmonic.prediction_hours8 + 1) \div 2
        IN /\ Len(harmonic.prediction_df) = steps
           /\ \A k \in 1..steps :
                 harmonic.prediction_df[k].datetime = last_observed + 15 * k

(***************************************************************************)
(* Anomaly detection                                                       *)
(***************************************************************************)
FlaggedPositions == {p \in DOMAIN anomaly.combined_anomaly : anomaly.combined_anomaly[p]}

\* C5: a sample's combined flag is true exactly when its z-score flag or its
\* multivariate flag is; the summary's dates are the datetimes of the samples
\* whose combined flag is true, in series order, and the total is their
\* number.
C5_CombinedIsOr ==
    anomaly.pc = "done" =>
        /\ \A p \in DOMAIN anomaly.df :
              anomaly.combined_anomaly[p] <=>
                 (anomaly.is_anomaly[p] \/ anomaly.is_multivariate_anomaly[p])
        /\ anomaly.anomaly_summary.anomaly_dates =
              [j \in 1..Cardinality(FlaggedPositions) |->
                  anomaly.df[SortedSeq(FlaggedPositions)[j]].datetime]
        /\ anomaly.anomaly_summary.total_anomalies =
              Len(anomaly.anomaly_summary.anomaly_dates)

\* C5 witness: a summary of at least two samples, one flagged by the z-score
\* alone and one by the multivariate model alone.
C5_Witness ==
    /\ anomaly.pc = "done"
    /\ \E p \in DOMAIN anomaly.df :
          anomaly.is_anomaly[p] /\ ~anomaly.is_multivariate_anomaly[p]
    /\ \E p \in DOMAIN anomaly.df :
          ~anomaly.is_anomaly[p] /\ anomaly.is_multivariate_anomaly[p]
    /\ anomaly.anomaly_summary.total_anomalies >= 2
    /\ Len(anomaly.anomaly_summary.anomaly_dates) = anomaly.anomaly_summary.total_anomalies

\* C6: for every input, the empty series included, the call yields a summary
\* whose percentage equals 100 * total_count / series length.
C6_Percentage ==
    anomaly.pc \in {"done", "error"} =>
        /\ anomaly.pc = "done"
        /\ anomaly.anomaly_summary.anomaly_percentage.den # 0
        /\ anomaly.anomaly_summary.anomaly_percentage.num * Len(anomaly.df) =
              100 * anomaly.anomaly_summary.total_anomalies
                  * anomaly.anomaly_summary.anomaly_percentage.den

ZeroStd(p) == ~anomaly.rolling_std[p].nan /\ anomaly.rolling_std[p].val = 0

\* C7: a sample whose centered rolling standard deviation is 0 has a false
\* z-score flag, and a series holding such a sample raises no error: it is
\* processed to the end, every sample getting its flags.
C7_ZeroStdNotFlagged ==
    /\ anomaly.pc \in {"scored", "done", "error"} =>
          \A p \in DOMAIN anomaly.df : ZeroStd(p) => ~anomaly.is_anomaly[p]
    /\ (anomaly.pc \in {"done", "error"} /\ \E p \in DOMAIN anomaly.df : ZeroStd(p)) =>
          /\ anomaly.pc = "done"
          /\ Len(anomaly.combined_anomaly) = Len(anomaly.df)

\* C7 witness: a processed series in which some samples have a rolling
\* standard deviation of 0 (and are not flagged) and another has a positive
\* one.
C7_Witness ==
    /\ anomaly.pc = "done"
    /\ \E p \in DOMAIN anomaly.df : ZeroStd(p) /\ ~anomaly.is_anomaly[p]
    /\ \E p \in DOMAIN anomaly.df :
          ~anomaly.rolling_std[p].nan /\ anomaly.rolling_std[p].val > 0

\* The series of C8: longer than the window, constant 1.0 but for one sample
\* of 10.0 in the middle.
Middle == (Len(anomaly.df) \div 2) + 1

SpikeSeries ==
    /\ Len(anomaly.df) > window
    /\ \A p \in DOMAIN anomaly.df :
          anomaly.df[p].height = IF p = Middle THEN 100 ELSE 10

\* C8 as stated: on that series the combined summary flags the injected
\* sample and only it (total count 1).
C8_OnlySpike ==
    (anomaly.pc = "done" /\ SpikeSeries) =>
        /\ FlaggedPositions = {Middle}
        /\ anomaly.anomaly_summary.total_anomalies = 1

\* C8 amended: on that series the z-score rule flags the injected sample and
\* only it, so the combined summary holds it; every other sample in the
\* summary is there by the multivariate flag alone, and the multivariate model
\* flags no more than its contamination share allows.
C8_SpikeByZScore ==
    (anomaly.pc = "done" /\ SpikeSeries) =>
        /\ \A p \in DOMAIN anomaly.df : anomaly.is_anomaly[p] <=> (p = Middle)
        /\ Middle \in FlaggedPositions
        /\ anomaly.df[Middle].datetime \in Range(anomaly.anomaly_summary.anomaly_dates)
        /\ \A p \in FlaggedPositions \ {Middle} : anomaly.is_multivariate_anomaly[p]
        /\ anomaly.anomaly_summary.total_anomalies >= 1
        /\ anomaly.anomaly_summary.total_anomalies
              <= 1 + MaxIsolated(Len(anomaly.df))

\* C8 witness: that series, processed, with the injected sample flagged by
\* its z-score and a second sample flagged by the multivariate model.
C8_Witness ==
    /\ anomaly.pc = "done"
    /\ SpikeSeries
    /\ anomaly.is_anomaly[Middle]
    /\ anomaly.anomaly_summary.total_anomalies = 2

(***************************************************************************)
(* ML forecast: fitting before predicting                                  *)
(***************************************************************************)
\* C11 as stated: a call made on an instance on which no fit has completed
\* emits no forecast point and does not succeed; when it ends, it ends in
\* ModelNotFittedError.
C11_ModelNotFittedError ==
    (ml.pc # "none" /\ ml.model_on_entry.state # "fitted") =>
        /\ Len(ml.predictions) = 0
        /\ ml.pc # "done"
        /\ ml.pc = "error" => ml.error = "ModelNotFittedError"

\* C11: no prediction is made with a model that has not been fitted.  Every
\* call fits the model itself before its first prediction: nothing is
\* predicted before the call's own fit, the model is fitted (on the call's
\* feature columns) from the start of the loop to the return, and no call
\* ends in NotFittedError.
C11_FitBeforePredict ==
    ml.pc # "none" =>
        /\ ml.pc \in {"split", "constructed"} => Len(ml.predictions) = 0
        /\ ml.pc \in {"loop", "done"} =>
              /\ model.state = "fitted"
              /\ model.feature_names_in = ml.feature_columns
        /\ ml.error # "NotFittedError"

\* C11 witness: the first call on a fresh instance (self.model was None on
\* entry) has returned a forecast of several points.
C11_Witness ==
    /\ ml.pc = "done"
    /\ ml.model_on_entry.state = "None"
    /\ Len(ml.predictions) >= 2
    /\ model.state = "fitted"

(***************************************************************************)
(* Extrema detection: short and unordered input                            *)
(***************************************************************************)
\* C12: detect_high_low_tides returns no labelled series for a series of
\* fewer than 3 samples.
C12_InsufficientData ==
    ~processed_df.isNone => Len(processed_df.rows) >= 3

(***************************************************************************)
(* Harmonic fit: short input                                               *)
(***************************************************************************)
\* The longest constituent period, O1 = 25.8193 h, in minutes rounded up.
longest_period_minutes == 1550

HarmonicSpan ==
    SetMax({harmonic.df[p].datetime : p \in DOMAIN harmonic.df})
        - SetMin({harmonic.df[p].datetime : p \in DOMAIN harmonic.df})

\* C13: whenever the series has fewer than 2 x 6 samples or spans less than
\* the longest constituent period, the call returns neither constituents
\* nor a forecast, and the error it ends in is InsufficientDataError.
C13_InsufficientData ==
    (/\ harmonic.pc # "none"
     /\ \/ Len(harmonic.df) < 2 * Cardinality(Constituents)
        \/ HarmonicSpan < longest_period_minutes) =>
        /\ harmonic.pc # "done"
        /\ harmonic.constituents = {}
        /\ Len(harmonic.prediction_df) = 0
        /\ harmonic.pc = "error" => harmonic.error = "InsufficientDataError"

(***************************************************************************)
(* ML forecast: short input                                                *)
(***************************************************************************)
\* C14: a call whose clean rows number fewer than 2 x the largest lag ends
\* in InsufficientDataError before anything is trained; it never reaches
\* the split, the fit or the loop, and never ends in another error.
C14_InsufficientData ==
    (ml.pc # "none" /\ Len(ml.df_clean) < 2 * Lags[Len(Lags)]) =>
        /\ ml.pc = "error"
        /\ ml.error = "InsufficientDataError"

\* C15: detect_high_low_tides returns a labelled series only for an input
\* whose timestamps are strictly increasing in file order.
C15_UnsortedIsError ==
    ~processed_df.isNone =>
        \A p \in 1..(Len(df.rows) - 1) : df.rows[p].datetime < df.rows[p + 1].datetime

C17_ReadsFittedModel ==
    /\ ml.pc = "loop" => model.state = "fitted"
    /\ ml2.pc = "loop" => model.state = "fitted"
    /\ ml.pc = "error" => ml.error # "NotFittedError"
    /\ ml2.pc = "error" => ml2.error # "NotFittedError"

(***************************************************************************)
(* Inputs are left unchanged                                               *)
(***************************************************************************)
\* C18: no step of an operation changes the series it was given:
\* detect_high_low_tides leaves self.df as it was; while an ML call runs,
\* the frame passed in keeps its rows and columns; so does the frame of an
\* anomaly detection between its two stages; and the frame a repeated
\* harmonic call gets back is the frame it was given.
C18_InputsUnchanged ==
    [][/\ processed_df' # processed_df => df' = df
       /\ ml.pc \in {"split", "constructed", "loop"} =>
             /\ ml'.df = ml.df
             /\ ml'.layout = ml.layout
       /\ anomaly.pc = "scored" => anomaly'.df = anomaly.df
       /\ (harmonic.pc \in {"done", "error"} /\ harmonic'.pc = "again") =>
             /\ harmonic'.first.df = harmonic.df
             /\ harmonic'.second.df = harmonic.df]_vars

\* C18 witness: detect_high_low_tides has sorted and labelled a series that
\* was loaded out of time order, and self.df still holds the rows in file
\* order, without labels.
C18_Witness ==
    /\ ~processed_df.isNone
    /\ Len(df.rows) >= 3
    /\ \E p \in DOMAIN processed_df.rows : processed_df.rows[p].tide_type # "normal"
    /\ \E p \in DOMAIN df.rows : df.rows[p].datetime # processed_df.rows[p].datetime
    /\ \A p \in DOMAIN df.rows :
          /\ DOMAIN df.rows[p] = {"datetime", "height", "label"}
          /\ df.rows[p].label = p - 1

(***************************************************************************)
(* Extrema of a sinusoid                                                   *)
(***************************************************************************)
\* Advance per sample of the loaded sinusoid, in 24ths of a period.
SineStep == df.rows[2].angle - df.rows[1].angle

\* Distance, in 24ths of a period, from the sample at position p to the
\* nearest true maximum (angle 6 + 24k) or true minimum (angle 18 + 24k).
ToNearest(p, extremum) ==
    LET r == (df.rows[p].angle + 24 - extremum) % 24
    IN IF r <= 12 THEN r ELSE 24 - r

Labelled(type) == {p \in DOMAIN processed_df.rows : processed_df.rows[p].tide_type = type}

\* C19: in every stretch of one period of the labelled sinusoid (the
\* samples from any sample p up to one period later, all within the series)
\* there is exactly one 'high' and exactly one 'low', and every 'high'
\* ('low') is within one sample of a true maximum (minimum).
C19_OnePerPeriod ==
    ~processed_df.isNone =>
        /\ \A p \in DOMAIN df.rows :
              df.rows[p].angle + 24 <= df.rows[Len(df.rows)].angle =>
                 LET stretch == {q \in DOMAIN df.rows :
                                    /\ df.rows[q].angle >= df.rows[p].angle
                                    /\ df.rows[q].angle < df.rows[p].angle + 24}
                 IN /\ Cardinality(stretch \cap Labelled("high")) = 1
                    /\ Cardinality(stretch \cap Labelled("low")) = 1
        /\ \A p \in Labelled("high") : ToNearest(p, 6) <= SineStep
        /\ \A p \in Labelled("low") : ToNearest(p, 18) <= SineStep

\* The 'high' ('low') labels within one sample of the true extremum at
\* angle a.
LabelledNear(type, a) ==
    {p \in Labelled(type) :
        /\ df.rows[p].angle - a <= SineStep
        /\ a - df.rows[p].angle <= SineStep}

\* Angles from one sample before the series to one sample after it.
AnglesAround ==
    (df.rows[1].angle - SineStep)..(df.rows[Len(df.rows)].angle + SineStep)

\* C19, amended: every 'high' ('low') is within one sample of a true
\* maximum (minimum); no true extremum gets two labels; and every true
\* extremum that has at least half a period of the series on each side gets
\* exactly one.
C19_OnePerExtremum ==
    ~processed_df.isNone =>
        /\ \A p \in Labelled("high") : ToNearest(p, 6) <= SineStep
        /\ \A p \in Labelled("low") : ToNearest(p, 18) <= SineStep
        /\ \A a \in AnglesAround :
              LET inside == /\ a - 12 >= df.rows[1].angle
                            /\ a + 12 <= df.rows[Len(df.rows)].angle
              IN /\ a % 24 = 6 =>
                      /\ Cardinality(LabelledNear("high", a)) <= 1
                      /\ inside => Cardinality(LabelledNear("high", a)) = 1
                 /\ a % 24 = 18 =>
                      /\ Cardinality(LabelledNear("low", a)) <= 1
                      /\ inside => Cardinality(LabelledNear("low", a)) = 1

\* C19 witness: a labelled sinusoid of 4.8 samples per period, over more
\* than two periods, with two 'high' and two 'low' labels, whose first
\* sample is a true maximum and is 'normal'.
C19_Witness ==
    /\ ~processed_df.isNone
    /\ SineStep = 5
    /\ df.rows[1].angle = 6
    /\ processed_df.rows[1].tide_type = "normal"
    /\ Cardinality(Labelled("high")) >= 2
    /\ Cardinality(Labelled("low")) >= 2
    /\ \E p \in Labelled("high") : ToNearest(p, 6) > 0

(***************************************************************************)
(* Harmonic fit and forecast of a known signal                             *)
(***************************************************************************)
\* The formula value mean + amplitude * cos(2 pi t / 12.4206) at t = q / 4
\* hours, in millimetres.
FormulaValue(q) ==
    100 * harmonic.signal.mean + harmonic.signal.amplitude * CosTable.M2[q + 1]

AbsDiff(x, y) == IF x >= y THEN x - y ELSE y - x

\* C20: for 48 hourly samples of 1.5 + 1.0 * cos(2 pi t / 12.4206) the call
\* returns; the fitted M2 amplitude sqrt(a^2 + b^2) is within 0.05 m of
\* 1.0 m; and the forecast point at t = 48 h + 15 min equals the formula
\* value (here: to within 20 mm, the accuracy of the fixed-point arithmetic,
\* far looser than the 1e-6 m claimed).
C20_FitReproduces ==
    (/\ harmonic.pc # "none"
     /\ harmonic.signal = [n |-> 48, mean |-> 15, amplitude |-> 10]) =>
        /\ harmonic.pc = "done"
        /\ LET square == harmonic.coeffs.M2.a * harmonic.coeffs.M2.a
                            + harmonic.coeffs.M2.b * harmonic.coeffs.M2.b
           IN /\ square >= (1000 - 50) * (1000 - 50)
              /\ square <= (1000 + 50) * (1000 + 50)
        /\ \A k \in DOMAIN harmonic.predicted_height :
              harmonic.frame.prediction_df[k].future_time = 48 * 60 + 15 =>
                 AbsDiff(harmonic.predicted_height[k],
                         FormulaValue(harmonic.frame.prediction_df[k].future_time \div 15)) <= 20

ProcessedHeights == [p \in DOMAIN processed_df.rows |-> processed_df.rows[p].height]

TypeAt(p) == processed_df.rows[p].tide_type

\* C22: every sample labelled 'high' is strictly greater than both of its
\* immediate neighbours and every sample labelled 'low' strictly smaller,
\* also on series with runs of equal consecutive heights.
C22_StrictlyBeyondNeighbours ==
    ~processed_df.isNone =>
        \A p \in DOMAIN processed_df.rows :
            LET x == ProcessedHeights
            IN /\ TypeAt(p) = "high" =>
                    /\ 1 < p /\ p < Len(x)
                    /\ x[p - 1] < x[p] /\ x[p + 1] < x[p]
               /\ TypeAt(p) = "low" =>
                    /\ 1 < p /\ p < Len(x)
                    /\ x[p - 1] > x[p] /\ x[p + 1] > x[p]

\* C23: a sample is labelled 'high' only if its prominence in the height
\* sequence is at least 0.3 and 'low' only if its prominence in the negated
\* sequence is at least 0.3; a local extremum of lower prominence is
\* labelled 'normal'.
C23_ProminenceRequired ==
    ~processed_df.isNone =>
        LET x == ProcessedHeights
        IN /\ \A p \in DOMAIN x :
                /\ TypeAt(p) = "high" => PeakProminence(x, p) >= prominence
                /\ TypeAt(p) = "low" => PeakProminence(Negated(x), p) >= prominence
           /\ \A p \in LocalMaxima(x) :
                PeakProminence(x, p) < prominence => TypeAt(p) = "normal"
           /\ \A p \in LocalMaxima(Negated(x)) :
                PeakProminence(Negated(x), p) < prominence => TypeAt(p) = "normal"

\* C23 witness: a detected series holding a 'high', and a local maximum
\* and a local minimum of prominence below 0.3 next to it.
C23_Witness ==
    /\ ~processed_df.isNone
    /\ \E p \in DOMAIN processed_df.rows : TypeAt(p) = "high"
    /\ \E p \in LocalMaxima(ProcessedHeights) :
          /\ PeakProminence(ProcessedHeights, p) < prominence
          /\ TypeAt(p) = "normal"
    /\ \E p \in LocalMaxima(Negated(ProcessedHeights)) :
          /\ PeakProminence(Negated(ProcessedHeights), p) < prominence
          /\ TypeAt(p) = "normal"

Passing(x) == {p \in LocalMaxima(x) : PeakProminence(x, p) >= prominence}

Failing(x) == {p \in LocalMaxima(x) : PeakProminence(x, p) < prominence}

\* C24: any two samples labelled 'high', and any two labelled 'low', are
\* at least min_distance = 2 positions apart, and no candidate that passes
\* the prominence test is rejected, whatever candidates that fail it lie
\* near it: every passing local maximum is 'high' and every passing local
\* minimum is 'low'.
C24_DistanceAmongProminent ==
    ~processed_df.isNone =>
        LET x == ProcessedHeights
        IN /\ \A p, q \in DOMAIN x :
                (p < q /\ TypeAt(p) = TypeAt(q) /\ TypeAt(p) # "normal")
                    => q - p >= distance
           /\ \A p \in Passing(x) : TypeAt(p) = "high"
           /\ \A p \in Passing(Negated(x)) : TypeAt(p) = "low"

\* C24 witness: a 'high' that passes the prominence test with a failing
\* candidate of at least its height exactly min_distance positions away,
\* which the distance rule visits first.
C24_Witness ==
    /\ ~processed_df.isNone
    /\ \E p \in Passing(ProcessedHeights), q \in Failing(ProcessedHeights) :
          /\ q - p = distance
          /\ ProcessedHeights[q] >= ProcessedHeights[p]
          /\ TypeAt(p) = "high"
          /\ TypeAt(q) = "normal"

(***************************************************************************)
(* ML forecast: starting row and calendar features                         *)
(***************************************************************************)
\* C25: the forecast starts from the last row of the input series, its
\* first timestamp being one 15-minute step after the last input sample,
\* and the only rows left out of the clean frame are those with an
\* undefined lag or rolling feature, whatever other columns are missing in
\* the last rows.
C25_StartsAtLastRow ==
    (ml.pc \in {"loop", "done"} /\ Len(ml.predictions) >= 1) =>
        /\ ml.predictions[1].datetime = ml.df[Len(ml.df)].datetime + 15
        /\ \A p \in DOMAIN ml.df :
              (\E r \in Range(ml.df_clean) : r.label = p - 1)
                <=> \A c \in Range(ml.feature_columns) :
                        ~DfMlCell(ml.df, c, p).nan

(***************************************************************************)
(* Harmonic forecast: time origin                                          *)
(***************************************************************************)
\* C26: for any row labelling of the input, 0..n-1 or a filtered integer
\* index, the harmonic forecast succeeds and its time origin is the
\* elapsed time, since the first sample, of the positionally last row.
C26_OriginIsLastRow ==
    (harmonic.pc \in {"done", "error"} /\ harmonic.index \in {"range", "filtered"}) =>
        /\ harmonic.pc = "done"
        /\ harmonic.origin =
              harmonic.df[Len(harmonic.df)].datetime
                - SetMin({harmonic.df[p].datetime : p \in DOMAIN harmonic.df})

\* C27: at every step of the forecast loop each calendar feature of the
\* feature vector (hour, day_of_year, month, hour_sin, hour_cos, day_sin,
\* day_cos) is the one of that step's forecast timestamp.
C27_CalendarFromTimestamp ==
    ml.pc \in {"loop", "done"} =>
        \A k \in DOMAIN ml.X_future :
            LET X == ml.X_future[k]
                t == ml.predictions[k].datetime
            IN /\ FeatureOf(X, <<"", "hour">>).val = Hour(t)
               /\ FeatureOf(X, <<"day_", "of_year">>).val = DayOfYear(t)
               /\ FeatureOf(X, <<"", "month">>).val = Month(t)
               /\ FeatureOf(X, <<"hour_", "sin">>) = HourCyclical(Hour(t))
               /\ FeatureOf(X, <<"hour_", "cos">>) = HourCyclical(Hour(t))
               /\ FeatureOf(X, <<"day_", "sin">>) = DayCyclical(DayOfYear(t))
               /\ FeatureOf(X, <<"day_", "cos">>) = DayCyclical(DayOfYear(t))

(***************************************************************************)
(* Anomaly detection: incomplete windows                                   *)
(***************************************************************************)
\* Samples whose centered 24-sample window is incomplete: the first 12, the
\* last 11, and every sample of a series shorter than 24.
IncompleteWindow(p) ==
    \/ p <= window \div 2
    \/ p > Len(anomaly.df) - ((window - 1) \div 2)

\* C28: a sample whose centered window is incomplete is never flagged by
\* the z-score rule; it is in the combined summary only when the
\* multivariate model flagged it.
C28_IncompleteNotFlagged ==
    /\ anomaly.pc \in {"scored", "done", "error"} =>
          \A p \in DOMAIN anomaly.df : IncompleteWindow(p) => ~anomaly.is_anomaly[p]
    /\ anomaly.pc = "done" =>
          \A p \in DOMAIN anomaly.df :
             (IncompleteWindow(p) /\ ~anomaly.is_multivariate_anomaly[p]) =>
                /\ ~anomaly.combined_anomaly[p]
                /\ anomaly.df[p].datetime \notin Range(anomaly.anomaly_summary.anomaly_dates)

\* C28 witness: a processed series of at least 24 samples with a sample of
\* 10.0 among its first 12 and 1.0 elsewhere; the z-score rule does not
\* flag it, the multivariate model does, and the summary holds it alone.
C28_Witness ==
    /\ anomaly.pc = "done"
    /\ Len(anomaly.df) >= window
    /\ \E p \in DOMAIN anomaly.df :
          /\ IncompleteWindow(p)
          /\ anomaly.df[p].height = 100
          /\ ~anomaly.is_anomaly[p]
          /\ anomaly.is_multivariate_anomaly[p]
          /\ anomaly.anomaly_summary.anomaly_dates = <<anomaly.df[p].datetime>>

(***************************************************************************)
(* Processor: the processed frame across operations                        *)
(***************************************************************************)
\* The processed frame has the tide_type column and the derived columns.
HasTypesAndFeatures(frame) ==
    /\ ~frame.isNone
    /\ Len(frame.rows) >= 1
    /\ \A p \in DOMAIN frame.rows :
          {"tide_type", "tidal_range", "height_change"} \subseteq DOMAIN frame.rows[p]

\* C29: once add_tidal_features has completed on a processor with loaded
\* data, processed_df has both tide_type and the derived feature columns
\* after every later detect_high_low_tides, add_tidal_features,
\* perform_harmonic_analysis, calculate_statistics or
\* create_interpolated_series.
C29_FeaturesKept ==
    [][HasTypesAndFeatures(processed_df) => HasTypesAndFeatures(processed_df')]_vars

(***************************************************************************)
(* Lunar features                                                          *)
(***************************************************************************)
\* C30: for a frame labelled 0..n-1 or by a filtered integer index, every
\* output row of add_lunar_features has the moon_phase, moon_phase_name and
\* moon_illumination computed from its own datetime; no row has another
\* row's values or a missing value.
C30_OwnMoonPhase ==
    (/\ lunar.pc \in {"done", "error"}
     /\ Len(lunar.df) >= 1
     /\ lunar.index \in {"range", "filtered"}) =>
        /\ lunar.pc = "done"
        /\ Len(lunar.df_copy) = Len(lunar.df)
        /\ \A p \in DOMAIN lunar.df_copy :
              LET row == lunar.df_copy[p]
                  moon_info == calculate_moon_phase(lunar.df[p].datetime)
              IN /\ row.moon_phase = Cell(moon_info.phase_value, {p})
                 /\ row.moon_phase_name = Cell(moon_info.phase_name, {p})
                 /\ row.moon_illumination = Cell(moon_info.illumination, {p})

====
